---- MODULE Spec2Model ----
(***************************************************************************)
(* Model of the variational-algorithm core of quantum-circuit-debugger:    *)
(* the Hamiltonian builders (backend/algorithms/hamiltonian.py), the       *)
(* continuous-time quantum walk (backend/algorithms/quantum_walk.py) and   *)
(* the optimisation runs (backend/algorithms/vqe.py, qaoa.py).             *)
(*                                                                         *)
(* Numbers.  Every coefficient, weight and energy is an integer that       *)
(* counts quarters: 3 stands for 0.75, 4 for 1.0, -1 for -0.25.  The code  *)
(* only adds, negates and compares such values, and every multiple of 0.25 *)
(* of this size is exact in binary floating point.                         *)
(*                                                                         *)
(* Python values.  A list is a function on 0..n-1 (matrices, vectors) or a *)
(* sequence (lists that are appended to); a str is a sequence of           *)
(* one-character strings; None is the string "None".                       *)
(***************************************************************************)
EXTENDS Integers, Sequences, FiniteSets, TLC

VARIABLES
    ham_fn,     \* the Hamiltonian builder being called
    ham_args,   \* its arguments
    ham_pc,     \* "call" before the builder has run, "done" after
    ham_ret,    \* what the call returned (or the exception it raised)
    walk_args,              \* run_quantum_walk's arguments
    walk_pc,                \* where run_quantum_walk stands
    walk_num_vertices,      \* run_quantum_walk's locals num_vertices, num_qubits,
    walk_num_qubits,        \* A_padded, psi0, step, psi_t, probability_evolution
    A_padded,
    psi0,
    step,
    psi_t,
    probability_evolution,
    walk_counts,            \* the counts the simulator returned for the final circuit
    walk_ret,               \* the dict run_quantum_walk returned
    opt_args,   \* per run: the runner called and its number of parameters
    opt_pc,     \* per run: where the runner stands
    history,    \* per run: the runner's local list history
    returned,   \* per run: the scalars cost_func has returned, in call order
    nit,        \* per run: the iterations the minimizer has made
    opt_ret,    \* per run: the dict the runner returned, or what it raised
    result,     \* per run: the OptimizeResult minimize returned
    response,   \* per run: what the endpoint answered
    opt_qc,     \* per run: the circuit run_qaoa built last
    request,    \* the body of a request to /qaoa, /vqe or /quantum-walk
    req_pc,     \* where the handling of the request stands
    req_error,  \* the error the request was answered with, if any
    evaluations \* the evaluations (estimator jobs, propagations) made for it

ham_vars == <<ham_fn, ham_args, ham_pc, ham_ret>>

walk_vars == <<walk_args, walk_pc, walk_num_vertices, walk_num_qubits, A_padded, psi0,
               step, psi_t, probability_evolution, walk_counts, walk_ret>>

opt_vars == <<opt_args, opt_pc, history, returned, nit, opt_ret, result, response, opt_qc>>

req_vars == <<request, req_pc, req_error, evaluations>>

vars == <<ham_vars, walk_vars, opt_vars, req_vars>>

\* Python's None: a value no list and no str of the model equals
None == <<"None">>

(***************************************************************************)
(* Bounds of the model.                                                    *)
(***************************************************************************)
MaxQubits == 3
MaxTokens == 4
MaxVertices == 3
MaxSteps == 2
MaxOrder == 2
MaxCalls == 2
MaxIter == 2
MaxLayers == 2

\* generate_graph is called with at most this many vertices
MaxGraphVertices == 9

\* the final circuit of a walk is run for this many shots
MaxShots == 2

\* Weights a coupling, field or adjacency entry is drawn from (in quarters).
Weights == {-4, 0, 8}

Pairs(n) == {p \in (0 .. n - 1) \X (0 .. n - 1) : p[1] < p[2]}

\* The input matrices: the upper triangle holds any weights; the entries on and
\* below the diagonal hold one weight everywhere (0: an upper-triangular
\* matrix), or the mirror image of the upper triangle around a zero diagonal.
FilledMatrices(n) ==
    { [i \in 0 .. n - 1 |-> [j \in 0 .. n - 1 |->
          IF i < j THEN u[<<i, j>>] ELSE fill]]
      : u \in [Pairs(n) -> Weights], fill \in Weights }

SymmetricMatrices(n) ==
    { [i \in 0 .. n - 1 |-> [j \in 0 .. n - 1 |->
          IF i < j THEN u[<<i, j>>] ELSE IF i = j THEN 0 ELSE u[<<j, i>>]]]
      : u \in [Pairs(n) -> Weights] }

Matrices(n) == FilledMatrices(n) \cup SymmetricMatrices(n)

Vectors(n) == [0 .. n - 1 -> Weights]

(***************************************************************************)
(* Python list and string primitives.                                      *)
(***************************************************************************)
\* [c] * n
Repeat(c, n) == [k \in 1 .. n |-> c]

\* lst[pos] = c for a 0-based pos inside the list
SetItem(lst, pos, c) == [lst EXCEPT ![pos + 1] = c]

\* a list written out, indexed from 0
Row(cells) == [j \in 0 .. Len(cells) - 1 |-> cells[j + 1]]

\* SparsePauliOp(pauli_list, coeffs): the two parallel lists of the operator
SparsePauliOp(pauli_list, coeffs) == [paulis |-> pauli_list, coeffs |-> coeffs]

IsException(v) == DOMAIN v = {"exception"}

Raise(kind) == [exception |-> kind]

(***************************************************************************)
(* Python dict and bit-string primitives.  A dict is the sequence of its   *)
(* items [key, value] in insertion order, no key twice; a bit string is a  *)
(* sequence of the characters "0" and "1".                                 *)
(***************************************************************************)
\* d.get(key, default)
DictGet(d, key, default) ==
    IF \E k \in 1 .. Len(d) : d[k].key = key
    THEN d[CHOOSE k \in 1 .. Len(d) : d[k].key = key].value
    ELSE default

\* d[key] = value: a key the dict holds keeps its place, a new key goes last
DictSet(d, key, value) ==
    IF \E k \in 1 .. Len(d) : d[k].key = key
    THEN [k \in 1 .. Len(d) |-> IF d[k].key = key THEN [key |-> key, value |-> value]
                                ELSE d[k]]
    ELSE Append(d, [key |-> key, value |-> value])

\* mutant: among the keys of maximal value the last one is taken
MaxKey_last(d) ==
    d[CHOOSE k \in 1 .. Len(d) :
          /\ \A m \in 1 .. Len(d) : d[m].value <= d[k].value
          /\ \A m \in k + 1 .. Len(d) : d[m].value < d[k].value].key

\* max(d, key=d.get) for a dict that is not empty: the first key, in
\* iteration order, whose value no other value exceeds
MaxKey(d) ==
    d[CHOOSE k \in 1 .. Len(d) :
          /\ \A m \in 1 .. Len(d) : d[m].value <= d[k].value
          /\ \A m \in 1 .. k - 1 : d[m].value < d[k].value].key

\* int(state, 2)
RECURSIVE IntOfBits(_, _)
IntOfBits(state, acc) ==
    IF state = <<>> THEN acc
    ELSE IntOfBits(Tail(state), 2 * acc + (IF Head(state) = "1" THEN 1 ELSE 0))

\* format(idx, "b")
RECURSIVE Binary(_)
Binary(idx) ==
    IF idx < 2 THEN <<IF idx = 1 THEN "1" ELSE "0">>
    ELSE Append(Binary(idx \div 2), IF idx % 2 = 1 THEN "1" ELSE "0")

\* format(idx, f"0{width}b"): padded with zeros on the left up to width
FormatBits(idx, width) ==
    LET digits == Binary(idx)
    IN  IF Len(digits) >= width THEN digits
        ELSE [k \in 1 .. width - Len(digits) |-> "0"] \o digits

\* the sum of the values of a dict
RECURSIVE DictSum(_)
DictSum(d) == IF d = <<>> THEN 0 ELSE Head(d).value + DictSum(Tail(d))

\* the dicts result.get_counts() can return for a run of the given number of
\* shots on num_qubits qubits: each outcome that occurred with its count
IsCounts(d, num_qubits, shots) ==
    /\ \A k, m \in 1 .. Len(d) : k # m => d[k].key # d[m].key
    /\ \A k \in 1 .. Len(d) : d[k].value >= 1
    /\ DictSum(d) = shots

(***************************************************************************)
(* hamiltonian.py: build_ising_hamiltonian                                 *)
(***************************************************************************)
\* the body of the i, j loop: "if J != 0: ... append"
ZZAppend(num_qubits, J, i, j, acc) ==
    IF J # 0
    THEN [paulis |-> Append(acc.paulis,
                        SetItem(SetItem(Repeat("I", num_qubits),
                                        num_qubits - 1 - i, "Z"),
                                num_qubits - 1 - j, "Z")),
          coeffs |-> Append(acc.coeffs, J)]
    ELSE acc

\* for i in range(num_qubits): for j in range(i + 1, num_qubits): ...
RECURSIVE ZZLoop(_, _, _, _, _)
ZZLoop(num_qubits, interaction_matrix, i, j, acc) ==
    IF i >= num_qubits THEN acc
    ELSE IF j >= num_qubits
         THEN ZZLoop(num_qubits, interaction_matrix, i + 1, i + 2, acc)
    ELSE ZZLoop(num_qubits, interaction_matrix, i, j + 1,
                ZZAppend(num_qubits, interaction_matrix[i][j], i, j, acc))

\* the body of the field loop: "if h != 0: ... append"
ZAppend(num_qubits, h, i, acc) ==
    IF h # 0
    THEN [paulis |-> Append(acc.paulis,
                        SetItem(Repeat("I", num_qubits), num_qubits - 1 - i, "Z")),
          coeffs |-> Append(acc.coeffs, h)]
    ELSE acc

\* for i in range(num_qubits): h = linear_terms[i]; ...
RECURSIVE ZLoop(_, _, _, _)
ZLoop(num_qubits, linear_terms, i, acc) ==
    IF i >= num_qubits THEN acc
    ELSE ZLoop(num_qubits, linear_terms, i + 1,
               ZAppend(num_qubits, linear_terms[i], i, acc))

\* "if linear_terms:" is false for None and for the empty list
Truthy(lst) == lst # None /\ DOMAIN lst # {}

\* mutant: an empty term list is returned as it is
DefaultOperator_nodefault(num_qubits, acc) == SparsePauliOp(acc.paulis, acc.coeffs)

\* "if not pauli_list: return SparsePauliOp(["I" * num_qubits], [0.0])", else
\* the operator of the collected terms
DefaultOperator(num_qubits, acc) ==
    IF acc.paulis = <<>>
    THEN SparsePauliOp(<<Repeat("I", num_qubits)>>, <<0>>)
    ELSE SparsePauliOp(acc.paulis, acc.coeffs)

\* mutant: reads the whole row of J, not only the entries right of the diagonal
build_ising_hamiltonian_fullrow(num_qubits, interaction_matrix, linear_terms) ==
    LET RECURSIVE Loop(_, _, _)
        Loop(i, j, acc) ==
            IF i >= num_qubits THEN acc
            ELSE IF j >= num_qubits THEN Loop(i + 1, 0, acc)
            ELSE Loop(i, j + 1,
                      IF i = j THEN acc
                      ELSE ZZAppend(num_qubits, interaction_matrix[i][j], i, j, acc))
        zz == Loop(0, 0, [paulis |-> <<>>, coeffs |-> <<>>])
        all == IF Truthy(linear_terms)
               THEN ZLoop(num_qubits, linear_terms, 0, zz)
               ELSE zz
    IN  DefaultOperator(num_qubits, all)

build_ising_hamiltonian(num_qubits, interaction_matrix, linear_terms) ==
    LET zz == ZZLoop(num_qubits, interaction_matrix, 0, 1,
                     [paulis |-> <<>>, coeffs |-> <<>>])
        all == IF Truthy(linear_terms)
               THEN ZLoop(num_qubits, linear_terms, 0, zz)
               ELSE zz
    IN  DefaultOperator(num_qubits, all)

(***************************************************************************)
(* vqe.py: maxcut_hamiltonian_from_adjacency                               *)
(*                                                                         *)
(* A numpy array is a value of its own: np.array(list), 1 - A and A.copy() *)
(* each make a new array, and np.fill_diagonal writes into the array it is *)
(* handed.  The operator returns, beside bases and scales, the caller's    *)
(* list as it is when the function returns.                                *)
(***************************************************************************)
\* np.fill_diagonal(H, 0)
FillDiagonal(M) ==
    [i \in DOMAIN M |-> [j \in DOMAIN M[i] |-> IF i = j THEN 0 ELSE M[i][j]]]

\* mutant: the diagonal is cleared in the caller's matrix, not in a copy
WorkMatrix_inplace(A, invert) ==
    LET cleared == FillDiagonal(A)
    IN  [caller |-> cleared,
         H |-> IF invert
               THEN FillDiagonal([i \in DOMAIN A |-> [j \in DOMAIN A[i] |-> 4 - A[i][j]]])
               ELSE cleared]

\* H = 1 - A (1.0 is 4 quarters) or H = A.copy(), then np.fill_diagonal(H, 0)
WorkMatrix(A, invert) ==
    [caller |-> A,
     H |-> IF invert
           THEN FillDiagonal([i \in DOMAIN A |-> [j \in DOMAIN A[i] |-> 4 - A[i][j]]])
           ELSE FillDiagonal(A)]

\* base = list(template); base[i] = "Z"; base[j] = "Z"
AdjacencyBase(n, i, j) == SetItem(SetItem(Repeat("I", n), i, "Z"), j, "Z")

\* mutant: every weight that is not zero yields a term
AdjacencyAppend_nonzero(n, H, i, j, acc) ==
    IF H[i][j] # 0
    THEN [bases |-> Append(acc.bases, AdjacencyBase(n, i, j)),
          scales |-> Append(acc.scales, H[i][j])]
    ELSE acc

\* if H[i, j] > 0: bases.append("".join(base)); scales.append(float(H[i, j]))
AdjacencyAppend(n, H, i, j, acc) ==
    IF H[i][j] > 0
    THEN [bases |-> Append(acc.bases, AdjacencyBase(n, i, j)),
          scales |-> Append(acc.scales, H[i][j])]
    ELSE acc

\* for i in range(n): for j in range(i + 1, n): ...
RECURSIVE AdjacencyLoop(_, _, _, _, _)
AdjacencyLoop(n, H, i, j, acc) ==
    IF i >= n THEN acc
    ELSE IF j >= n THEN AdjacencyLoop(n, H, i + 1, i + 2, acc)
    ELSE AdjacencyLoop(n, H, i, j + 1, AdjacencyAppend(n, H, i, j, acc))

maxcut_hamiltonian_from_adjacency(adjacency_matrix, invert) ==
    LET n == Cardinality(DOMAIN adjacency_matrix)
        work == WorkMatrix(adjacency_matrix, invert)
        terms == AdjacencyLoop(n, work.H, 0, 1, [bases |-> <<>>, scales |-> <<>>])
    IN  [bases |-> terms.bases, scales |-> terms.scales, caller |-> work.caller]

(***************************************************************************)
(* hamiltonian.py: mvc_hamiltonian and weighted_maxcut_hamiltonian         *)
(***************************************************************************)
\* 0.75, added per edge to J[i][j], h[i] and h[j]
EdgePenalty == 3
\* 1.0, subtracted from every h[i]
VertexPenalty == 4

\* [[0.0] * num_qubits for _ in range(num_qubits)]
ZeroMatrix(n) == [i \in 0 .. n - 1 |-> [j \in 0 .. n - 1 |-> 0]]

\* [0.0] * num_qubits
ZeroVector(n) == [i \in 0 .. n - 1 |-> 0]

\* the edge loop of mvc_hamiltonian, carrying J and h
RECURSIVE MvcLoop(_, _, _, _, _)
MvcLoop(num_qubits, adjacency_matrix, i, j, acc) ==
    IF i >= num_qubits THEN acc
    ELSE IF j >= num_qubits
         THEN MvcLoop(num_qubits, adjacency_matrix, i + 1, i + 2, acc)
    ELSE MvcLoop(num_qubits, adjacency_matrix, i, j + 1,
            IF adjacency_matrix[i][j] # 0
            THEN LET hi == [acc.h EXCEPT ![i] = @ + EdgePenalty]
                 IN  [J |-> [acc.J EXCEPT ![i][j] = @ + EdgePenalty],
                      h |-> [hi EXCEPT ![j] = @ + EdgePenalty]]
            ELSE acc)

\* mutant: the edge penalty reaches h[i] only, never h[j]
mvc_hamiltonian_onesided(adjacency_matrix, num_qubits) ==
    LET RECURSIVE Loop(_, _, _)
        Loop(i, j, acc) ==
            IF i >= num_qubits THEN acc
            ELSE IF j >= num_qubits THEN Loop(i + 1, i + 2, acc)
            ELSE Loop(i, j + 1,
                    IF adjacency_matrix[i][j] # 0
                    THEN [J |-> [acc.J EXCEPT ![i][j] = @ + EdgePenalty],
                          h |-> [acc.h EXCEPT ![i] = @ + EdgePenalty]]
                    ELSE acc)
        edges == Loop(0, 1, [J |-> ZeroMatrix(num_qubits), h |-> ZeroVector(num_qubits)])
    IN  [J |-> edges.J,
         h |-> [i \in 0 .. num_qubits - 1 |-> edges.h[i] - VertexPenalty]]

mvc_hamiltonian(adjacency_matrix, num_qubits) ==
    LET edges == MvcLoop(num_qubits, adjacency_matrix, 0, 1,
                         [J |-> ZeroMatrix(num_qubits), h |-> ZeroVector(num_qubits)])
    IN  [J |-> edges.J,
         h |-> [i \in 0 .. num_qubits - 1 |-> edges.h[i] - VertexPenalty]]

\* the edge loop of weighted_maxcut_hamiltonian, carrying J
RECURSIVE MaxcutLoop(_, _, _, _, _)
MaxcutLoop(num_qubits, adjacency_matrix, i, j, J) ==
    IF i >= num_qubits THEN J
    ELSE IF j >= num_qubits
         THEN MaxcutLoop(num_qubits, adjacency_matrix, i + 1, i + 2, J)
    ELSE MaxcutLoop(num_qubits, adjacency_matrix, i, j + 1,
            IF adjacency_matrix[i][j] # 0
            THEN [J EXCEPT ![i][j] = -adjacency_matrix[i][j]]
            ELSE J)

\* mutant: the weight is copied without the sign change
weighted_maxcut_hamiltonian_unsigned(adjacency_matrix, num_qubits) ==
    [J |-> [i \in 0 .. num_qubits - 1 |-> [j \in 0 .. num_qubits - 1 |->
                IF i < j THEN adjacency_matrix[i][j] ELSE 0]],
     h |-> ZeroVector(num_qubits)]

weighted_maxcut_hamiltonian(adjacency_matrix, num_qubits) ==
    [J |-> MaxcutLoop(num_qubits, adjacency_matrix, 0, 1, ZeroMatrix(num_qubits)),
     h |-> ZeroVector(num_qubits)]

(***************************************************************************)
(* Python str primitives used by parse_hamiltonian.  A str is a sequence   *)
(* of one-character strings.                                               *)
(***************************************************************************)
\* the characters str.isspace() accepts, among those of the model's texts
IsSpace(c) == c = " "

\* the characters \d matches, among those of the model's texts
IsDigit(c) == c \in {"0", "1", "2", "3", "4", "5", "6", "7", "8", "9"}

DigitValue(c) ==
    CASE c = "0" -> 0 [] c = "1" -> 1 [] c = "2" -> 2 [] c = "3" -> 3
      [] c = "4" -> 4 [] c = "5" -> 5 [] c = "6" -> 6 [] c = "7" -> 7
      [] c = "8" -> 8 [] c = "9" -> 9

\* [XYZ] under re.IGNORECASE
IsPauliLetter(c) == c \in {"X", "Y", "Z", "x", "y", "z"}

\* str.upper() on a Pauli letter
Upper(c) ==
    CASE c = "x" -> "X" [] c = "y" -> "Y" [] c = "z" -> "Z" [] OTHER -> c

\* s.strip()
RECURSIVE LStrip(_)
LStrip(s) == IF s # <<>> /\ IsSpace(Head(s)) THEN LStrip(Tail(s)) ELSE s

RECURSIVE RStrip(_)
RStrip(s) ==
    IF s # <<>> /\ IsSpace(s[Len(s)]) THEN RStrip(SubSeq(s, 1, Len(s) - 1)) ELSE s

Strip(s) == RStrip(LStrip(s))

\* sep in s
Contains(s, sep) == \E k \in 1 .. Len(s) : s[k] = sep

\* s.split(sep) for a one-character sep: every occurrence cuts, empty pieces kept
RECURSIVE SplitOn(_, _, _)
SplitOn(s, sep, piece) ==
    IF s = <<>> THEN <<piece>>
    ELSE IF Head(s) = sep THEN <<piece>> \o SplitOn(Tail(s), sep, <<>>)
    ELSE SplitOn(Tail(s), sep, Append(piece, Head(s)))

Split(s, sep) == SplitOn(s, sep, <<>>)

\* s.split(): cut at runs of whitespace, no empty piece
RECURSIVE SplitWs(_, _)
SplitWs(s, piece) ==
    IF s = <<>> THEN (IF piece = <<>> THEN <<>> ELSE <<piece>>)
    ELSE IF IsSpace(Head(s))
         THEN (IF piece = <<>> THEN <<>> ELSE <<piece>>) \o SplitWs(Tail(s), <<>>)
    ELSE SplitWs(Tail(s), Append(piece, Head(s)))

\* " ".join(parts)
RECURSIVE JoinSpace(_)
JoinSpace(parts) ==
    IF parts = <<>> THEN <<>>
    ELSE IF Len(parts) = 1 THEN parts[1]
    ELSE parts[1] \o <<" ">> \o JoinSpace(Tail(parts))

\* int(digits) for a non-empty run of decimal digits
RECURSIVE IntOf(_, _)
IntOf(digits, acc) ==
    IF digits = <<>> THEN acc
    ELSE IntOf(Tail(digits), 10 * acc + DigitValue(Head(digits)))

\* 1.0, the coefficient of a term that states none (in quarters)
DefaultCoeff == 4

\* float(s) for s with no surrounding whitespace, over the characters of the
\* model's texts (no ".", "e", "_", "inf", "nan"): an optional sign and one or
\* more digits, else ValueError.  The value is in quarters.
Float(s) ==
    LET body == IF s # <<>> /\ Head(s) \in {"-", "+"} THEN Tail(s) ELSE s
        sign == IF s # <<>> /\ Head(s) = "-" THEN -1 ELSE 1
    IN  IF body # <<>> /\ \A k \in 1 .. Len(body) : IsDigit(body[k])
        THEN [value |-> sign * DefaultCoeff * IntOf(body, 0)]
        ELSE Raise("ValueError")

\* re.finditer(r"([XYZ])(\d+)", pauli_part, re.IGNORECASE): the matches left to
\* right, not overlapping, each with the longest run of digits
RECURSIVE DigitRun(_, _)
DigitRun(s, k) == IF k <= Len(s) /\ IsDigit(s[k]) THEN DigitRun(s, k + 1) ELSE k

RECURSIVE FindIter(_, _)
FindIter(s, k) ==
    IF k > Len(s) THEN <<>>
    ELSE IF IsPauliLetter(s[k]) /\ k < Len(s) /\ IsDigit(s[k + 1])
         THEN LET end == DigitRun(s, k + 1)
              IN  <<[gate |-> s[k], digits |-> SubSeq(s, k + 1, end - 1)]>>
                  \o FindIter(s, end)
    ELSE FindIter(s, k + 1)

(***************************************************************************)
(* hamiltonian.py: parse_hamiltonian                                       *)
(***************************************************************************)
\* the coefficient and the Pauli part of one stripped, non-empty term
\* (the if "*" in term / else of the loop body, with both inner try blocks)
TermParts(term) ==
    IF Contains(term, "*")
    THEN LET parts == Split(term, "*")
             f == Float(Strip(parts[1]))
         IN  IF IsException(f)
             THEN [coeff |-> DefaultCoeff, pauli_part |-> term]
             ELSE [coeff |-> f.value, pauli_part |-> Strip(parts[2])]
    ELSE LET parts == SplitWs(term, <<>>)
             f == IF parts # <<>> THEN Float(parts[1]) ELSE Raise("ValueError")
         IN  IF parts = <<>> \/ IsException(f)
             THEN [coeff |-> DefaultCoeff, pauli_part |-> term]
             ELSE [coeff |-> f.value, pauli_part |-> JoinSpace(Tail(parts))]

\* the loop over the matches: op_list[num_qubits - 1 - idx] = gate when idx < num_qubits
RECURSIVE PlaceGates(_, _, _)
PlaceGates(matches, num_qubits, op_list) ==
    IF matches = <<>> THEN op_list
    ELSE LET gate == Upper(Head(matches).gate)
             idx == IntOf(Head(matches).digits, 0)
         IN  PlaceGates(Tail(matches), num_qubits,
                        IF idx < num_qubits
                        THEN SetItem(op_list, num_qubits - 1 - idx, gate)
                        ELSE op_list)

\* the loop over the terms
RECURSIVE TermLoop(_, _, _)
TermLoop(terms, num_qubits, acc) ==
    IF terms = <<>> THEN acc
    ELSE LET term == Strip(Head(terms))
         IN  IF term = <<>> THEN TermLoop(Tail(terms), num_qubits, acc)
             ELSE LET tp == TermParts(term)
                      op_list == PlaceGates(FindIter(tp.pauli_part, 1), num_qubits,
                                            Repeat("I", num_qubits))
                  IN  TermLoop(Tail(terms), num_qubits,
                               [paulis |-> Append(acc.paulis, op_list),
                                coeffs |-> Append(acc.coeffs, tp.coeff)])

\* mutant: a '-' separates terms as a '+' does
ParseBody_splitminus(hamiltonian_str, num_qubits) ==
    IF hamiltonian_str = None THEN Raise("AttributeError")
    ELSE DefaultOperator(num_qubits,
            TermLoop(Split([k \in 1 .. Len(hamiltonian_str) |->
                               IF hamiltonian_str[k] = "-" THEN "+"
                               ELSE hamiltonian_str[k]], "+"),
                     num_qubits, [paulis |-> <<>>, coeffs |-> <<>>]))

\* the body of the outer try: None has no split method
ParseBody(hamiltonian_str, num_qubits) ==
    IF hamiltonian_str = None THEN Raise("AttributeError")
    ELSE DefaultOperator(num_qubits,
            TermLoop(Split(hamiltonian_str, "+"), num_qubits,
                     [paulis |-> <<>>, coeffs |-> <<>>]))

\* mutant: the handler is missing, the exception leaves the function
parse_hamiltonian_nohandler(hamiltonian_str, num_qubits) ==
    ParseBody(hamiltonian_str, num_qubits)

parse_hamiltonian(hamiltonian_str, num_qubits) ==
    LET r == ParseBody(hamiltonian_str, num_qubits)
    IN  IF IsException(r)
        THEN SparsePauliOp(<<Repeat("I", num_qubits)>>, <<0>>)
        ELSE r

(***************************************************************************)
(* The texts parse_hamiltonian is called on: None and every concatenation  *)
(* of at most MaxTokens tokens.                                            *)
(***************************************************************************)
Tokens == { <<"Z", "0">>, <<"x", "1">>, <<"y", "2">>, <<"2">>,
            <<"-">>, <<"+">>, <<"*">>, <<" ">> }

RECURSIVE TextsUpTo(_)
TextsUpTo(k) ==
    IF k = 0 THEN {<<>>}
    ELSE LET shorter == TextsUpTo(k - 1)
         IN  shorter \cup {t \o tok : t \in shorter, tok \in Tokens}

Texts == TextsUpTo(MaxTokens) \cup {None}

(***************************************************************************)
(* quantum_walk.py: run_quantum_walk                                       *)
(*                                                                         *)
(* Times are whole numbers of ticks, a tick being a third of 10^-4, the    *)
(* last decimal that round(t, 4) keeps.  A complex number is a record of   *)
(* its                                                                     *)
(* real and imaginary part.  scipy.linalg.expm is its power series up to   *)
(* the term of order MaxOrder, with every term multiplied by MaxOrder! so  *)
(* that the value stays integral: an amplitude a stands for                *)
(* a / MaxOrder!, and a probability p for p / (MaxOrder!)^2.               *)
(***************************************************************************)
\* the time increments dt a walk is run with, in ticks
DtValues == {1, 3}

\* the entries of an adjacency matrix handed to the walk
WalkWeights == {0, 1}

\* the graphs a walk is run on: symmetric, without self-loops
WalkGraphs(V) ==
    { [i \in 0 .. V - 1 |-> [j \in 0 .. V - 1 |->
          IF i < j THEN u[<<i, j>>] ELSE IF i = j THEN 0 ELSE u[<<j, i>>]]]
      : u \in [Pairs(V) -> WalkWeights] }

\* round(t, 4): the multiple of 10^-4 (three ticks) nearest to t
Round4(t) == 3 * ((t + 1) \div 3)

Complex(re, im) == [re |-> re, im |-> im]

CAdd(a, b) == Complex(a.re + b.re, a.im + b.im)

CMul(a, b) == Complex(a.re * b.re - a.im * b.im, a.re * b.im + a.im * b.re)

\* abs(z) ** 2
AbsSquared(z) == z.re * z.re + z.im * z.im

RECURSIVE Factorial(_)
Factorial(k) == IF k = 0 THEN 1 ELSE k * Factorial(k - 1)

RECURSIVE Power(_, _)
Power(b, e) == IF e = 0 THEN 1 ELSE b * Power(b, e - 1)

\* what sim.run(..., shots=shots).result().get_counts(...) can return
SimCounts(num_qubits, shots) ==
    UNION { { d \in { [i \in 1 .. k |->
                          [key |-> FormatBits(outcomes[i], num_qubits),
                           value |-> amounts[i]]]
                        : outcomes \in [1 .. k -> 0 .. Power(2, num_qubits) - 1],
                          amounts \in [1 .. k -> 1 .. shots] } :
                IsCounts(d, num_qubits, shots) }
            : k \in 1 .. shots }

\* int(math.ceil(math.log2(v))) for v >= 1
RECURSIVE CeilLog2From(_, _)
CeilLog2From(v, q) == IF Power(2, q) >= v THEN q ELSE CeilLog2From(v, q + 1)

CeilLog2(v) == CeilLog2From(v, 0)

\* the sum of f[0] .. f[n - 1] of complex numbers
RECURSIVE CSum(_, _)
CSum(f, n) == IF n = 0 THEN Complex(0, 0) ELSE CAdd(CSum(f, n - 1), f[n - 1])

\* X @ Y for dim x dim matrices
MatMul(X, Y, dim) ==
    [i \in 0 .. dim - 1 |-> [j \in 0 .. dim - 1 |->
        CSum([k \in 0 .. dim - 1 |-> CMul(X[i][k], Y[k][j])], dim)]]

\* U @ psi
MatVec(U, psi, dim) ==
    [i \in 0 .. dim - 1 |->
        CSum([k \in 0 .. dim - 1 |-> CMul(U[i][k], psi[k])], dim)]

\* -1j * A * t
MinusIAt(A, t, dim) ==
    [i \in 0 .. dim - 1 |-> [j \in 0 .. dim - 1 |-> Complex(0, 0 - A[i][j] * t)]]

\* MaxOrder! times the power series of exp(M), from the term of order k on,
\* given power = M^k
RECURSIVE ExpmSeries(_, _, _, _)
ExpmSeries(M, dim, k, power) ==
    LET c == Factorial(MaxOrder) \div Factorial(k)
        term == [i \in 0 .. dim - 1 |-> [j \in 0 .. dim - 1 |->
                    Complex(c * power[i][j].re, c * power[i][j].im)]]
    IN  IF k = MaxOrder THEN term
        ELSE LET rest == ExpmSeries(M, dim, k + 1, MatMul(power, M, dim))
             IN  [i \in 0 .. dim - 1 |-> [j \in 0 .. dim - 1 |->
                     CAdd(term[i][j], rest[i][j])]]

Identity(dim) ==
    [i \in 0 .. dim - 1 |-> [j \in 0 .. dim - 1 |->
        IF i = j THEN Complex(1, 0) ELSE Complex(0, 0)]]

\* expm(M)
Expm(M, dim) == ExpmSeries(M, dim, 0, Identity(dim))

\* mutant: the padding of the matrix is filled with ones
PadAdjacency_ones(A, V, dim) ==
    [i \in 0 .. dim - 1 |-> [j \in 0 .. dim - 1 |->
        IF i < V /\ j < V THEN A[i][j] ELSE 1]]

\* A_padded = np.zeros((dim, dim)); A_padded[:num_vertices, :num_vertices] = A
PadAdjacency(A, V, dim) ==
    [i \in 0 .. dim - 1 |-> [j \in 0 .. dim - 1 |->
        IF i < V /\ j < V THEN A[i][j] ELSE 0]]

\* mutant: the walker starts on the vertex after the one asked for
InitialState_shifted(initial_vertex, dim) ==
    [k \in 0 .. dim - 1 |->
        IF k = (initial_vertex + 1) % dim THEN Complex(1, 0) ELSE Complex(0, 0)]

\* psi0 = np.zeros(dim, dtype=complex); psi0[initial_vertex] = 1.0
InitialState(initial_vertex, dim) ==
    [k \in 0 .. dim - 1 |->
        IF k = initial_vertex THEN Complex(1, 0) ELSE Complex(0, 0)]

\* mutant: a single vertex gets no qubit
QubitsFor_nominimum(V) == CeilLog2(V)

\* max(1, int(math.ceil(math.log2(num_vertices)))) if num_vertices > 1 else 1
QubitsFor(V) ==
    IF V > 1 THEN (IF CeilLog2(V) > 1 THEN CeilLog2(V) ELSE 1) ELSE 1

\* A.shape[0]
Shape0(A) == Cardinality(DOMAIN A)

WalkIdle ==
    /\ walk_args = None
    /\ walk_pc = "idle"
    /\ walk_num_vertices = None
    /\ walk_num_qubits = None
    /\ A_padded = None
    /\ psi0 = None
    /\ step = None
    /\ psi_t = None
    /\ probability_evolution = None
    /\ walk_counts = None
    /\ walk_ret = None

WalkInitWith(shots) ==
    /\ walk_pc = "call"
    /\ \E V \in 1 .. MaxVertices :
          \E A \in WalkGraphs(V), v \in 0 .. V - 1, n \in 0 .. MaxSteps, d \in DtValues :
              walk_args = [adjacency_matrix |-> A, initial_vertex |-> v,
                           num_steps |-> n, dt |-> d, shots |-> shots]
    /\ walk_num_vertices = None
    /\ walk_num_qubits = None
    /\ A_padded = None
    /\ psi0 = None
    /\ step = None
    /\ psi_t = None
    /\ probability_evolution = None
    /\ walk_counts = None
    /\ walk_ret = None

WalkInit == WalkInitWith(MaxShots)

\* lines 101-116: the sizes, the padded matrix, the initial state
WalkSetup ==
    /\ walk_pc = "call"
    /\ LET V == Shape0(walk_args.adjacency_matrix)
           q == QubitsFor(V)
           dim == Power(2, q)
       IN  /\ walk_num_vertices' = V
           /\ walk_num_qubits' = q
           /\ A_padded' = PadAdjacency(walk_args.adjacency_matrix, V, dim)
           /\ psi0' = InitialState(walk_args.initial_vertex, dim)
    /\ step' = 0
    /\ probability_evolution' = <<>>
    /\ walk_pc' = "loop"
    /\ UNCHANGED <<walk_args, psi_t, walk_counts, walk_ret, ham_vars, opt_vars, req_vars>>

\* one pass of "for step in range(num_steps + 1)"
WalkSnapshot ==
    /\ walk_pc = "loop"
    /\ step <= walk_args.num_steps
    /\ LET dim == Power(2, walk_num_qubits)
           t == step * walk_args.dt
           U == Expm(MinusIAt(A_padded, t, dim), dim)
           psi == MatVec(U, psi0, dim)
           probs == [k \in 0 .. dim - 1 |-> AbsSquared(psi[k])]
           vertex_probs == [k \in 0 .. walk_num_vertices - 1 |-> probs[k]]
       IN  /\ psi_t' = psi
           /\ probability_evolution' =
                 Append(probability_evolution,
                        [time |-> Round4(t), probabilities |-> vertex_probs])
    /\ step' = step + 1
    /\ UNCHANGED <<walk_args, walk_pc, walk_num_vertices, walk_num_qubits,
                   A_padded, psi0, walk_counts, walk_ret, ham_vars, opt_vars, req_vars>>

\* the loop has run num_steps + 1 times
WalkLoopExit ==
    /\ walk_pc = "loop"
    /\ step > walk_args.num_steps
    /\ walk_pc' = "sample"
    /\ UNCHANGED <<walk_args, walk_num_vertices, walk_num_qubits, A_padded, psi0,
                   step, psi_t, probability_evolution, walk_counts, walk_ret,
                   ham_vars, opt_vars, req_vars>>

\* mutant: the outcome of index num_vertices is kept as well
FilterItem_inclusive(filtered, item, num_vertices, num_qubits) ==
    LET idx == IntOfBits(item.key, 0)
        label == FormatBits(idx, num_qubits)
    IN  IF idx <= num_vertices
        THEN DictSet(filtered, label, DictGet(filtered, label, 0) + item.value)
        ELSE filtered

\* idx = int(state, 2); if idx < num_vertices: label = format(idx, ...);
\* filtered_counts[label] = filtered_counts.get(label, 0) + count
FilterItem(filtered, item, num_vertices, num_qubits) ==
    LET idx == IntOfBits(item.key, 0)
        label == FormatBits(idx, num_qubits)
    IN  IF idx < num_vertices
        THEN DictSet(filtered, label, DictGet(filtered, label, 0) + item.value)
        ELSE filtered

\* for state, count in counts.items(): ...
RECURSIVE FilterLoop(_, _, _, _)
FilterLoop(items, num_vertices, num_qubits, filtered) ==
    IF items = <<>> THEN filtered
    ELSE FilterLoop(Tail(items), num_vertices, num_qubits,
                    FilterItem(filtered, Head(items), num_vertices, num_qubits))

\* the dict run_quantum_walk returns
WalkResult(counts) ==
    LET filtered_counts == FilterLoop(counts, walk_num_vertices, walk_num_qubits, <<>>)
        most_likely == IF filtered_counts # <<>> THEN MaxKey(filtered_counts)
                       ELSE Repeat("0", walk_num_qubits)
    IN  [status |-> "completed",
         probability_evolution |-> probability_evolution,
         final_counts |-> filtered_counts,
         most_likely_vertex |-> IntOfBits(most_likely, 0),
         most_likely_state |-> most_likely,
         num_vertices |-> walk_num_vertices,
         num_qubits |-> walk_num_qubits,
         num_steps |-> walk_args.num_steps,
         dt |-> walk_args.dt,
         initial_vertex |-> walk_args.initial_vertex]

\* the final circuit is run for the given shots: the simulator returns the
\* count of every outcome that occurred; the counts are filtered and the dict
\* is returned
WalkSample ==
    /\ walk_pc = "sample"
    /\ \E counts \in SimCounts(walk_num_qubits, walk_args.shots) :
          /\ walk_counts' = counts
          /\ walk_ret' = WalkResult(counts)
    /\ walk_pc' = "done"
    /\ UNCHANGED <<walk_args, walk_num_vertices, walk_num_qubits, A_padded, psi0,
                   step, psi_t, probability_evolution, ham_vars, opt_vars, req_vars>>

WalkNext == WalkSetup \/ WalkSnapshot \/ WalkLoopExit \/ WalkSample

(***************************************************************************)
(* qaoa.py: build_qaoa_circuit; vqe.py: build_vqe_ansatz                   *)
(*                                                                         *)
(* A QuantumCircuit is its number of qubits and the list of instructions   *)
(* appended to it.  gammas and betas are sequences; angles are integers    *)
(* (twice an angle parameter times a weight in quarters).                  *)
(***************************************************************************)
QuantumCircuit(num_qubits) == [num_qubits |-> num_qubits, data |-> <<>>]

AppendGate(qc, gate) == [qc EXCEPT !.data = Append(@, gate)]

H(q) == [name |-> "h", qubits |-> <<q>>]

CX(c, t) == [name |-> "cx", qubits |-> <<c, t>>]

RZ(angle, q) == [name |-> "rz", qubits |-> <<q>>, angle |-> angle]

RX(angle, q) == [name |-> "rx", qubits |-> <<q>>, angle |-> angle]

RY(param, q) == [name |-> "ry", qubits |-> <<q>>, param |-> param]

\* for q in range(num_qubits): qc.h(q)
RECURSIVE HadamardLoop(_, _, _)
HadamardLoop(num_qubits, q, qc) ==
    IF q >= num_qubits THEN qc
    ELSE HadamardLoop(num_qubits, q + 1, AppendGate(qc, H(q)))

\* mutant: the rotation angle of a coupling does not depend on gamma
Sandwich_fixedangle(gamma, J, i, j, qc) ==
    AppendGate(AppendGate(AppendGate(qc, CX(i, j)), RZ(2 * J, j)), CX(i, j))

\* qc.cx(i, j); qc.rz(2 * gamma * J, j); qc.cx(i, j)
Sandwich(gamma, J, i, j, qc) ==
    AppendGate(AppendGate(AppendGate(qc, CX(i, j)), RZ(2 * gamma * J, j)), CX(i, j))

\* for i in range(num_qubits): for j in range(i + 1, num_qubits): ...
RECURSIVE CostZZLoop(_, _, _, _, _, _)
CostZZLoop(num_qubits, interaction_matrix, gamma, i, j, qc) ==
    IF i >= num_qubits THEN qc
    ELSE IF j >= num_qubits
    THEN CostZZLoop(num_qubits, interaction_matrix, gamma, i + 1, i + 2, qc)
    ELSE LET J == interaction_matrix[i][j]
         IN  CostZZLoop(num_qubits, interaction_matrix, gamma, i, j + 1,
                        IF J # 0 THEN Sandwich(gamma, J, i, j, qc) ELSE qc)

\* for i in range(num_qubits): h = linear_terms[i]; if h != 0: qc.rz(2 * gamma * h, i)
RECURSIVE CostZLoop(_, _, _, _, _)
CostZLoop(num_qubits, linear_terms, gamma, i, qc) ==
    IF i >= num_qubits THEN qc
    ELSE LET h == linear_terms[i]
         IN  CostZLoop(num_qubits, linear_terms, gamma, i + 1,
                       IF h # 0 THEN AppendGate(qc, RZ(2 * gamma * h, i)) ELSE qc)

\* for q in range(num_qubits): qc.rx(2 * beta, q)
RECURSIVE MixerLoop(_, _, _, _)
MixerLoop(num_qubits, beta, q, qc) ==
    IF q >= num_qubits THEN qc
    ELSE MixerLoop(num_qubits, beta, q + 1, AppendGate(qc, RX(2 * beta, q)))

\* mutant: the mixer of a layer comes before its cost gates
LayerGates_mixerfirst(num_qubits, interaction_matrix, linear_terms, gamma, beta, qc) ==
    LET mixed == MixerLoop(num_qubits, beta, 0, qc)
        zz == CostZZLoop(num_qubits, interaction_matrix, gamma, 0, 1, mixed)
    IN  IF Truthy(linear_terms)
        THEN CostZLoop(num_qubits, linear_terms, gamma, 0, zz)
        ELSE zz

\* one pass of the layer loop: the couplings, the fields, the mixer
LayerGates(num_qubits, interaction_matrix, linear_terms, gamma, beta, qc) ==
    LET zz == CostZZLoop(num_qubits, interaction_matrix, gamma, 0, 1, qc)
        z == IF Truthy(linear_terms)
             THEN CostZLoop(num_qubits, linear_terms, gamma, 0, zz)
             ELSE zz
    IN  MixerLoop(num_qubits, beta, 0, z)

\* for layer in range(p): gamma = gammas[layer]; beta = betas[layer]; ...
RECURSIVE LayerLoop(_, _, _, _, _, _, _)
LayerLoop(num_qubits, interaction_matrix, gammas, betas, linear_terms, layer, qc) ==
    IF layer >= Len(gammas) THEN qc
    ELSE IF layer >= Len(betas) THEN Raise("IndexError")
    ELSE LET gamma == gammas[layer + 1]
             beta == betas[layer + 1]
         IN  LayerLoop(num_qubits, interaction_matrix, gammas, betas, linear_terms,
                       layer + 1,
                       LayerGates(num_qubits, interaction_matrix, linear_terms,
                                  gamma, beta, qc))

\* mutant: the circuit starts without the Hadamard layer
build_qaoa_circuit_bare(num_qubits, interaction_matrix, gammas, betas, linear_terms) ==
    LayerLoop(num_qubits, interaction_matrix, gammas, betas, linear_terms, 0,
              QuantumCircuit(num_qubits))

build_qaoa_circuit(num_qubits, interaction_matrix, gammas, betas, linear_terms) ==
    LayerLoop(num_qubits, interaction_matrix, gammas, betas, linear_terms, 0,
              HadamardLoop(num_qubits, 0, QuantumCircuit(num_qubits)))

\* mutant: every layer names its parameters as layer 0 does
Parameter_samename(layer, q) == [layer |-> 0, q |-> q]

\* Parameter(f"theta_{layer}_{q}"): a parameter is told by its name
Parameter(layer, q) == [layer |-> layer, q |-> q]

\* for q in range(num_qubits): p = Parameter(...); params.append(p); qc.ry(p, q)
RECURSIVE RotationLoop(_, _, _, _)
RotationLoop(num_qubits, layer, q, acc) ==
    IF q >= num_qubits THEN acc
    ELSE LET p == Parameter(layer, q)
         IN  RotationLoop(num_qubits, layer, q + 1,
                          [qc |-> AppendGate(acc.qc, RY(p, q)),
                           params |-> Append(acc.params, p)])

\* for q in range(num_qubits - 1): qc.cx(q, q + 1)
RECURSIVE EntanglerLoop(_, _, _)
EntanglerLoop(num_qubits, q, acc) ==
    IF q >= num_qubits - 1 THEN acc
    ELSE EntanglerLoop(num_qubits, q + 1,
                       [acc EXCEPT !.qc = AppendGate(@, CX(q, q + 1))])

\* for layer in range(depth): ...
RECURSIVE DepthLoop(_, _, _, _)
DepthLoop(num_qubits, depth, layer, acc) ==
    IF layer >= depth THEN acc
    ELSE DepthLoop(num_qubits, depth, layer + 1,
                   EntanglerLoop(num_qubits, 0,
                                 RotationLoop(num_qubits, layer, 0, acc)))

build_vqe_ansatz(num_qubits, depth) ==
    DepthLoop(num_qubits, depth, 0,
              [qc |-> QuantumCircuit(num_qubits), params |-> <<>>])

(***************************************************************************)
(* vqe.py: build_ansatz                                                    *)
(*                                                                         *)
(* The user's circuit is a list of gates, each a name and a list of        *)
(* qubits; the ansatz is the circuit built from it and the list of the     *)
(* parameters created on the way.                                          *)
(***************************************************************************)
\* gate.name.upper(), on the names that are used here
UpperName(name) ==
    CASE name = "h" -> "H"
      [] name = "rx" -> "RX"
      [] name = "crz" -> "CRZ"
      [] name = "cnot" -> "CNOT"
      [] OTHER -> name

\* the circuit method build_ansatz calls for a name: getattr(qc, name.lower())
\* for the rotations, qc.cx for CNOT, qc.ccx for TOFFOLI, qc.cswap for FREDKIN
Method(name) ==
    CASE name = "H" -> "h" [] name = "X" -> "x" [] name = "Y" -> "y"
      [] name = "Z" -> "z" [] name = "S" -> "s" [] name = "T" -> "t"
      [] name = "RX" -> "rx" [] name = "RY" -> "ry" [] name = "RZ" -> "rz"
      [] name \in {"CNOT", "CX"} -> "cx"
      [] name = "CY" -> "cy" [] name = "CZ" -> "cz" [] name = "CH" -> "ch"
      [] name = "SWAP" -> "swap"
      [] name = "CRX" -> "crx" [] name = "CRY" -> "cry" [] name = "CRZ" -> "crz"
      [] name \in {"CCX", "TOFFOLI"} -> "ccx"
      [] name \in {"CSWAP", "FREDKIN"} -> "cswap"

\* Parameter(f"theta_{i}")
Theta(i) == <<"theta", i>>

\* qubits[:k], or IndexError where qubits[k - 1] does not exist
Operands(qubits, k) == [m \in 1 .. k |-> qubits[m]]

\* a gate without a parameter is appended
Plain(acc, name, qubits, k) ==
    IF Len(qubits) < k THEN Raise("IndexError")
    ELSE [acc EXCEPT !.qc = AppendGate(@, [name |-> Method(name),
                                           qubits |-> Operands(qubits, k)])]

\* p = Parameter(f"theta_{i}"); params.append(p); getattr(qc, name.lower())(p, ...)
Trainable(acc, i, name, qubits, k) ==
    IF Len(qubits) < k THEN Raise("IndexError")
    ELSE [qc |-> AppendGate(acc.qc, [name |-> Method(name),
                                     qubits |-> Operands(qubits, k),
                                     param |-> Theta(i)]),
          params |-> Append(acc.params, Theta(i))]

\* mutant: a controlled rotation is taken whatever the number of its qubits
AnsatzGate_anyarity(acc, i, gate) ==
    LET name == UpperName(gate.name)
        qubits == gate.qubits
    IN  IF name \in {"H", "X", "Y", "Z", "S", "T"} THEN Plain(acc, name, qubits, 1)
        ELSE IF name \in {"RX", "RY", "RZ"} THEN Trainable(acc, i, name, qubits, 1)
        ELSE IF name \in {"CNOT", "CX", "CY", "CZ", "CH", "SWAP"} /\ Len(qubits) >= 2
        THEN Plain(acc, name, qubits, 2)
        ELSE IF name \in {"CRX", "CRY", "CRZ"}
        THEN Trainable(acc, i, name, qubits, Len(qubits))
        ELSE IF name \in {"CCX", "TOFFOLI", "CSWAP", "FREDKIN"} /\ Len(qubits) >= 3
        THEN Plain(acc, name, qubits, 3)
        ELSE acc

\* one pass of the loop over circuit_data.gates: the if/elif chain
AnsatzGate(acc, i, gate) ==
    LET name == UpperName(gate.name)
        qubits == gate.qubits
    IN  IF name \in {"H", "X", "Y", "Z", "S", "T"} THEN Plain(acc, name, qubits, 1)
        ELSE IF name \in {"RX", "RY", "RZ"} THEN Trainable(acc, i, name, qubits, 1)
        ELSE IF name \in {"CNOT", "CX", "CY", "CZ", "CH", "SWAP"} /\ Len(qubits) >= 2
        THEN Plain(acc, name, qubits, 2)
        ELSE IF name \in {"CRX", "CRY", "CRZ"} /\ Len(qubits) >= 2
        THEN Trainable(acc, i, name, qubits, 2)
        ELSE IF name \in {"CCX", "TOFFOLI", "CSWAP", "FREDKIN"} /\ Len(qubits) >= 3
        THEN Plain(acc, name, qubits, 3)
        ELSE acc

\* for i, gate in enumerate(circuit_data.gates): ...
RECURSIVE AnsatzLoop(_, _, _)
AnsatzLoop(gates, i, acc) ==
    IF IsException(acc) \/ i >= Len(gates) THEN acc
    ELSE AnsatzLoop(gates, i + 1, AnsatzGate(acc, i, gates[i + 1]))

build_ansatz(circuit_data, num_qubits) ==
    AnsatzLoop(circuit_data.gates, 0,
               [qc |-> QuantumCircuit(num_qubits), params |-> <<>>])

\* a gate of a request: its name and its qubits
UserGate(name, qubits) == [name |-> name, qubits |-> qubits]

\* the circuits run_optimization is called with: without a gate, without a
\* rotation, with a rotation and a controlled rotation, with a controlled
\* rotation that names one qubit only, and with lower-case names and a gate
\* build_ansatz does not know; every one-qubit gate names its qubit
UserCircuits ==
    { [num_qubits |-> 1, gates |-> <<>>],
      [num_qubits |-> 2, gates |-> <<UserGate("h", <<0>>), UserGate("CX", <<0, 1>>)>>],
      [num_qubits |-> 2, gates |-> <<UserGate("RX", <<0>>), UserGate("CRY", <<0, 1>>)>>],
      [num_qubits |-> 2, gates |-> <<UserGate("crz", <<0>>)>>],
      [num_qubits |-> 3, gates |-> <<UserGate("rx", <<0>>), UserGate("CP", <<0, 1>>),
                                     UserGate("TOFFOLI", <<0, 1, 2>>),
                                     UserGate("RZ", <<1>>)>>] }

\* len(parameters) of the ansatz of a circuit
ParameterCount(circuit_data) ==
    LET built == build_ansatz(circuit_data, circuit_data.num_qubits)
    IN  IF IsException(built) THEN 0 ELSE Len(built.params)

(***************************************************************************)
(* vqe.py: run_vqe, run_optimization; qaoa.py: run_qaoa                    *)
(*                                                                         *)
(* scipy.optimize.minimize and the Estimator are outside the repository:   *)
(* the minimizer calls cost_func any number of times in any of its         *)
(* iterations (at least once before it returns), and the estimator         *)
(* returns any energy.  Several runs may be under way at once.             *)
(***************************************************************************)
Runs == {1, 2}

Runners == {"run_vqe", "run_qaoa", "run_optimization"}

\* the energies the estimator returns (in quarters)
Energies == {-4, 3}

\* the problems run_qaoa is called with: one coupling on two qubits, with or
\* without a field
QaoaProblems ==
    { [num_qubits |-> 2,
       interaction_matrix |-> Row(<<Row(<<0, w>>), Row(<<0, 0>>)>>),
       linear_terms |-> h]
        : w \in {4, -8}, h \in {None, Row(<<-4, 0>>)} }

\* the calls of the three runners: run_qaoa optimises 2 * p_layers parameters
\* (x0 is the concatenation of two vectors of p_layers entries), run_vqe the
\* parameters of its ansatz, run_optimization those of the user's circuit,
\* which may have none
OptCalls ==
    { [runner |-> "run_qaoa", p_layers |-> p, n_params |-> p + p, max_iter |-> MaxIter,
       shots |-> s]
      @@ problem
        : p \in 1 .. MaxLayers, problem \in QaoaProblems, s \in {1, MaxShots} }
    \cup
    { [runner |-> "run_vqe", p_layers |-> 0, n_params |-> 2, max_iter |-> MaxIter,
       num_qubits |-> 1, ansatz_depth |-> 2, shots |-> s]
        : s \in {1, MaxShots} }
    \cup
    { [runner |-> "run_optimization", p_layers |-> 0, circuit_data |-> c,
       n_params |-> ParameterCount(c), max_iter |-> MaxIter]
        : c \in UserCircuits }

\* the endpoint has not answered yet
Unanswered == [answered |-> FALSE]

\* main.py, the endpoint around the runner: the response model built from the
\* dict the runner returned, or HTTPException(status_code=500, detail=str(e))
\* for what it raised
EndpointResponse(ret) ==
    IF IsException(ret)
    THEN [status_code |-> 500, detail |-> ret.exception]
    ELSE [status |-> "completed",
          optimal_energy |-> ret.optimal_energy,
          optimal_params |-> ret.optimal_params,
          history |-> ret.history,
          message |-> ret.message]

OptIdle ==
    /\ opt_args = None
    /\ opt_pc = None
    /\ history = None
    /\ returned = None
    /\ nit = None
    /\ opt_ret = None
    /\ result = None
    /\ response = None
    /\ opt_qc = None

\* the calls that are followed in pairs: those of one shot, of
\* run_optimization those of a circuit of two gates and, of run_qaoa, those
\* with one layer on the first of its problems
PairedCalls ==
    { call \in OptCalls :
        /\ call.runner # "run_optimization" => call.shots = 1
        /\ call.runner = "run_optimization" => Len(call.circuit_data.gates) = 2
        /\ call.runner = "run_qaoa" =>
              /\ call.p_layers = 1
              /\ call.linear_terms = None
              /\ call.interaction_matrix[0][1] = 4 }

\* two runs under way at once
OptInit ==
    /\ opt_args \in [Runs -> PairedCalls]
    /\ opt_pc = [r \in Runs |-> "call"]
    /\ history = [r \in Runs |-> None]
    /\ returned = [r \in Runs |-> <<>>]
    /\ nit = [r \in Runs |-> 0]
    /\ opt_ret = [r \in Runs |-> None]
    /\ result = [r \in Runs |-> None]
    /\ response = [r \in Runs |-> Unanswered]
    /\ opt_qc = [r \in Runs |-> None]

\* the parameter vector the minimizer handed to the k-th call of cost_func:
\* n entries, indexed from 0, no two the same in any two calls
Point(k, n) == [i \in 0 .. n - 1 |-> (k - 1) * n + i + 1]

\* params[:p].tolist() and params[p:].tolist() of a vector indexed from 0
SliceTo(params, p) ==
    LET n == Cardinality(DOMAIN params)
    IN  [k \in 1 .. (IF p < n THEN p ELSE n) |-> params[k - 1]]

SliceFrom(params, p) ==
    LET n == Cardinality(DOMAIN params)
    IN  [k \in 1 .. (IF p < n THEN n - p ELSE 0) |-> params[p + k - 1]]

\* mutant: the betas are read from the start of the vector, as the gammas are
QaoaCircuitOf_sharedslice(call, params) ==
    build_qaoa_circuit(call.num_qubits, call.interaction_matrix,
                       SliceTo(params, call.p_layers),
                       SliceTo(params, call.p_layers), call.linear_terms)

\* run_qaoa, in cost_func and after minimize: the circuit of a parameter vector
QaoaCircuitOf(call, params) ==
    build_qaoa_circuit(call.num_qubits, call.interaction_matrix,
                       SliceTo(params, call.p_layers),
                       SliceFrom(params, call.p_layers), call.linear_terms)

\* the circuit a call of cost_func builds: run_vqe and run_optimization bind
\* the one ansatz they built, which is left out here
CircuitBuilt(r, params) ==
    IF opt_args[r].runner = "run_qaoa"
    THEN QaoaCircuitOf(opt_args[r], params)
    ELSE opt_qc[r]

\* one run, of any call, with no other run beside it
RunInit ==
    /\ \E call \in OptCalls :
          opt_args = [r \in Runs |-> call]
    /\ opt_pc = [r \in Runs |-> IF r = 1 THEN "call" ELSE "unused"]
    /\ history = [r \in Runs |-> None]
    /\ returned = [r \in Runs |-> <<>>]
    /\ nit = [r \in Runs |-> 0]
    /\ opt_ret = [r \in Runs |-> None]
    /\ result = [r \in Runs |-> None]
    /\ response = [r \in Runs |-> Unanswered]
    /\ opt_qc = [r \in Runs |-> None]

\* ansatz, parameters = build_ansatz(circuit_data, num_qubits) of
\* run_optimization; the other runners build their own circuits
AnsatzOf(call) ==
    IF call.runner = "run_optimization"
    THEN build_ansatz(call.circuit_data, call.circuit_data.num_qubits)
    ELSE [params |-> [k \in 1 .. call.n_params |-> k]]

\* the runner's first lines: the ansatz is built, which in run_optimization
\* can raise; history = [], cost_func is defined, and run_optimization
\* branches on "if parameters:"
OptStart(r) ==
    /\ opt_pc[r] = "call"
    /\ LET built == AnsatzOf(opt_args[r])
       IN  IF IsException(built)
           THEN /\ opt_pc' = [opt_pc EXCEPT ![r] = "raised"]
                /\ opt_ret' = [opt_ret EXCEPT ![r] = built]
                /\ response' = [response EXCEPT ![r] = EndpointResponse(built)]
                /\ UNCHANGED history
           ELSE /\ history' = [history EXCEPT ![r] = <<>>]
                /\ opt_pc' = [opt_pc EXCEPT ![r] =
                                IF opt_args[r].runner = "run_optimization"
                                   /\ built.params = <<>>
                                THEN "no_params"
                                ELSE "minimize"]
                /\ UNCHANGED <<opt_ret, response>>
    /\ UNCHANGED <<opt_args, returned, nit, result, opt_qc,
                   ham_vars, walk_vars, req_vars>>

\* mutant: the runs append to one list
HistoryAppend_shared(h, r, energy) ==
    [q \in Runs |-> IF opt_pc[q] = "call" THEN h[q] ELSE Append(h[q], energy)]

\* history.append(energy), on the list of the call that defined cost_func
HistoryAppend(h, r, energy) == [h EXCEPT ![r] = Append(@, energy)]

\* mutant: cost_func returns the energy without recording it
CostFunc_unrecorded(r) ==
    /\ opt_pc[r] = "minimize"
    /\ Len(returned[r]) < MaxCalls
    /\ \E energy \in Energies :
          returned' = [returned EXCEPT ![r] = Append(@, energy)]
    /\ opt_qc' = [opt_qc EXCEPT ![r] = CircuitBuilt(r, Point(Len(returned[r]) + 1,
                                                     opt_args[r].n_params))]
    /\ UNCHANGED <<opt_args, opt_pc, history, nit, opt_ret, result, response,
                   ham_vars, walk_vars, req_vars>>

\* the minimizer calls cost_func: one estimator job, history.append(energy),
\* return energy
CostFunc(r) ==
    /\ opt_pc[r] = "minimize"
    /\ Len(returned[r]) < MaxCalls
    /\ \E energy \in Energies :
          /\ history' = HistoryAppend(history, r, energy)
          /\ returned' = [returned EXCEPT ![r] = Append(@, energy)]
    /\ opt_qc' = [opt_qc EXCEPT ![r] = CircuitBuilt(r, Point(Len(returned[r]) + 1,
                                                     opt_args[r].n_params))]
    /\ UNCHANGED <<opt_args, opt_pc, nit, opt_ret, result, response,
                   ham_vars, walk_vars, req_vars>>

\* the minimizer goes on to its next iteration
MinimizerIterate(r) ==
    /\ opt_pc[r] = "minimize"
    /\ nit[r] < opt_args[r].max_iter
    /\ nit' = [nit EXCEPT ![r] = @ + 1]
    /\ UNCHANGED <<opt_args, opt_pc, history, returned, opt_ret, result, response, opt_qc,
                   ham_vars, walk_vars, req_vars>>

\* the messages of scipy's OptimizeResult
ConvergedMessage == "Optimization terminated successfully."

MaxIterMessage == "Maximum number of function evaluations has been exceeded."

\* what minimize can return: result.x is one of the points it tried and
\* result.fun the value it was given there; it
\* has met its tolerance, or it has used up max_iter without meeting it
OptimizeResults(r) ==
    { [fun |-> returned[r][k], x |-> Point(k, opt_args[r].n_params),
       success |-> TRUE, message |-> ConvergedMessage]
        : k \in 1 .. Len(returned[r]) }
    \cup
    { [fun |-> returned[r][k], x |-> Point(k, opt_args[r].n_params),
       success |-> FALSE, message |-> MaxIterMessage]
        : k \in IF nit[r] = opt_args[r].max_iter THEN 1 .. Len(returned[r]) ELSE {} }

\* mutant: the dict carries the fixed message, not the minimizer's
ReturnDict_fixedmessage(r, res, counts) ==
    [status |-> "completed",
     optimal_energy |-> res.fun,
     optimal_params |-> res.x,
     history |-> history[r],
     message |-> "Optimization complete."]

\* the dict run_vqe, run_qaoa and run_optimization return after minimize;
\* run_qaoa adds opt_gammas = result.x[:p_layers].tolist() and
\* opt_betas = result.x[p_layers:].tolist()
\* run_vqe and run_qaoa add counts, most_likely = max(counts, key=counts.get)
\* and num_qubits; run_optimization samples nothing
ReturnDict(r, res, counts) ==
    LET common == [status |-> "completed",
                   optimal_energy |-> res.fun,
                   optimal_params |-> res.x,
                   history |-> history[r],
                   message |-> res.message]
        sampled == [counts |-> counts,
                    most_likely_state |-> MaxKey(counts),
                    num_qubits |-> opt_args[r].num_qubits]
    IN  IF opt_args[r].runner = "run_qaoa"
        THEN common @@ sampled @@
             [optimal_gammas |-> SliceTo(res.x, opt_args[r].p_layers),
              optimal_betas |-> SliceFrom(res.x, opt_args[r].p_layers),
              p_layers |-> opt_args[r].p_layers]
        ELSE IF opt_args[r].runner = "run_vqe"
        THEN common @@ sampled
        ELSE common

\* meas_result.get_counts(meas_qc) of the run of the measured circuit
Sampled(r) ==
    IF opt_args[r].runner = "run_optimization" THEN {None}
    ELSE SimCounts(opt_args[r].num_qubits, opt_args[r].shots)

\* minimize returns and the runner returns its dict
MinimizeReturn(r) ==
    /\ opt_pc[r] = "minimize"
    /\ Len(returned[r]) >= 1
    /\ \E res \in OptimizeResults(r), counts \in Sampled(r) :
          /\ result' = [result EXCEPT ![r] = res]
          /\ opt_ret' = [opt_ret EXCEPT ![r] = ReturnDict(r, res, counts)]
          /\ response' = [response EXCEPT ![r] =
                              EndpointResponse(ReturnDict(r, res, counts))]
          /\ opt_qc' = [opt_qc EXCEPT ![r] = CircuitBuilt(r, res.x)]
    /\ opt_pc' = [opt_pc EXCEPT ![r] = "done"]
    /\ UNCHANGED <<opt_args, history, returned, nit, ham_vars, walk_vars, req_vars>>

\* the exceptions an estimator job can raise
OracleErrors == {"QiskitError", "RuntimeError"}

\* estimator.run(...) or job.result() raises inside cost_func: nothing is
\* appended, the exception leaves cost_func, minimize and the runner
CostFuncRaises(r) ==
    /\ opt_pc[r] \in {"minimize", "no_params"}
    /\ \E e \in OracleErrors :
          /\ opt_ret' = [opt_ret EXCEPT ![r] = Raise(e)]
          /\ response' = [response EXCEPT ![r] = EndpointResponse(Raise(e))]
    /\ opt_pc' = [opt_pc EXCEPT ![r] = "raised"]
    /\ UNCHANGED <<opt_args, history, returned, nit, result, opt_qc,
                   ham_vars, walk_vars, req_vars>>

\* run_optimization without parameters: energy = cost_func([]) and the dict
\* with "history": [energy]
NoParametersDict(energy) ==
    [status |-> "completed",
     optimal_energy |-> energy,
     optimal_params |-> <<>>,
     history |-> <<energy>>,
     message |-> "No parameters to optimize."]

NoParameters(r) ==
    /\ opt_pc[r] = "no_params"
    /\ \E energy \in Energies :
          /\ history' = HistoryAppend(history, r, energy)
          /\ returned' = [returned EXCEPT ![r] = Append(@, energy)]
          /\ opt_ret' = [opt_ret EXCEPT ![r] = NoParametersDict(energy)]
          /\ response' = [response EXCEPT ![r] = EndpointResponse(NoParametersDict(energy))]
    /\ opt_pc' = [opt_pc EXCEPT ![r] = "done"]
    /\ UNCHANGED <<opt_args, nit, result, opt_qc, ham_vars, walk_vars, req_vars>>

OptNext ==
    \E r \in Runs :
        \/ OptStart(r)
        \/ CostFunc(r)
        \/ MinimizerIterate(r)
        \/ MinimizeReturn(r)
        \/ NoParameters(r)
        \/ CostFuncRaises(r)

(***************************************************************************)
(* models.py and main.py: a request to /qaoa, /vqe or /quantum-walk, from   *)
(* the validation of its body to the first evaluation made for it.         *)
(* A matrix of a request body is a list of lists of any shape.             *)
(***************************************************************************)
\* the 2 x 2 matrices with entries 0 and 1
SquareBodies ==
    { Row(<<Row(<<a, b>>), Row(<<c, d>>)>>) : a \in {0, 1}, b \in {0, 1},
                                             c \in {0, 1}, d \in {0, 1} }

\* matrices that are not square: 1 x 2, 2 x 3 and 2 x 1
RaggedBodies ==
    { Row(<<Row(<<0, 1>>)>>),
      Row(<<Row(<<0, 1, 0>>), Row(<<1, 0, 0>>)>>),
      Row(<<Row(<<0>>), Row(<<1>>)>>) }

IsSquare(M) == \A i \in DOMAIN M : DOMAIN M[i] = DOMAIN M

IsSymmetric(M) == IsSquare(M) /\ \A i, j \in DOMAIN M : M[i][j] = M[j][i]

\* the bodies sent: a qubit count and a layer count (p_layers, ansatz_depth)
\* of either sign, and a matrix of any shape
Requests ==
    { [endpoint |-> "/qaoa", num_qubits |-> n, layers |-> p, matrix |-> M]
        : n \in 0 .. 2, p \in -1 .. 1, M \in SquareBodies \cup RaggedBodies }
    \cup
    { [endpoint |-> "/vqe", num_qubits |-> n, layers |-> p, matrix |-> Row(<<>>)]
        : n \in 0 .. 2, p \in -1 .. 1 }
    \cup
    { [endpoint |-> "/quantum-walk", num_qubits |-> 0, layers |-> 0, matrix |-> M]
        : M \in SquareBodies }

ReqIdle ==
    /\ request = None
    /\ req_pc = None
    /\ req_error = None
    /\ evaluations = None

NoError == [status_code |-> 200]

ReqInit ==
    /\ request \in Requests
    /\ req_pc = "received"
    /\ req_error = NoError
    /\ evaluations = 0

\* the Field constraints of QAOARequest and VQERequest: num_qubits ge=2,
\* p_layers and ansatz_depth ge=1 le=10; QuantumWalkRequest puts none on
\* adjacency_matrix, and no model has a validator for a matrix
FieldsValid(body) ==
    body.endpoint \in {"/qaoa", "/vqe"} =>
        /\ body.num_qubits >= 2
        /\ body.layers >= 1
        /\ body.layers <= 10

\* FastAPI validates the body against the request model: 422 or the handler
ValidateBody ==
    /\ req_pc = "received"
    /\ IF FieldsValid(request)
       THEN req_pc' = "handler" /\ req_error' = req_error
       ELSE req_pc' = "answered" /\ req_error' = [status_code |-> 422]
    /\ UNCHANGED <<request, evaluations, ham_vars, walk_vars, opt_vars>>

\* build_ising_hamiltonian reads interaction_matrix[i][j] for i < j < num_qubits
ReadsOutside(num_qubits, M) ==
    \E i, j \in 0 .. num_qubits - 1 :
        i < j /\ (i \notin DOMAIN M \/ j \notin DOMAIN M[i])

\* the runner up to its first evaluation: run_qaoa builds the operator (an
\* IndexError leaves it and becomes a 500), run_vqe builds operator and
\* ansatz, run_quantum_walk pads the matrix and sets psi0
RunnerSetup ==
    /\ req_pc = "handler"
    /\ IF request.endpoint = "/qaoa" /\ ReadsOutside(request.num_qubits, request.matrix)
       THEN /\ req_pc' = "answered"
            /\ req_error' = [status_code |-> 500, detail |-> "IndexError"]
       ELSE /\ req_pc' = "evaluate"
            /\ req_error' = req_error
    /\ UNCHANGED <<request, evaluations, ham_vars, walk_vars, opt_vars>>

\* the first estimator job of cost_func, or the first propagation of the walk
FirstEvaluation ==
    /\ req_pc = "evaluate"
    /\ evaluations = 0
    /\ evaluations' = evaluations + 1
    /\ UNCHANGED <<request, req_pc, req_error, ham_vars, walk_vars, opt_vars>>

ReqNext == ValidateBody \/ RunnerSetup \/ FirstEvaluation

(***************************************************************************)
(* The Hamiltonian builders as a state machine: a call is set up with its  *)
(* arguments, then runs to its return value.                               *)
(***************************************************************************)
QubitCounts == 1 .. MaxQubits

HamIdle ==
    /\ ham_fn = None
    /\ ham_args = None
    /\ ham_pc = "idle"
    /\ ham_ret = None

HamInit ==
    /\ ham_pc = "call"
    /\ ham_ret = None
    /\ \E n \in QubitCounts :
          \/ /\ ham_fn = "build_ising_hamiltonian"
             /\ \E J \in Matrices(n), h \in Vectors(n) \cup {None} :
                   ham_args = [num_qubits |-> n, interaction_matrix |-> J,
                               linear_terms |-> h]
          \/ /\ ham_fn = "mvc_hamiltonian"
             /\ \E A \in Matrices(n) :
                   ham_args = [adjacency_matrix |-> A, num_qubits |-> n]
          \/ /\ ham_fn = "weighted_maxcut_hamiltonian"
             /\ \E A \in Matrices(n) :
                   ham_args = [adjacency_matrix |-> A, num_qubits |-> n]
          \/ /\ ham_fn = "parse_hamiltonian"
             /\ \E t \in Texts :
                   ham_args = [hamiltonian_str |-> t, num_qubits |-> n]
          \/ /\ ham_fn = "maxcut_hamiltonian_from_adjacency"
             /\ \E A \in Matrices(n), invert \in BOOLEAN :
                   ham_args = [adjacency_matrix |-> A, invert |-> invert]

BuildIsing ==
    /\ ham_pc = "call"
    /\ ham_fn = "build_ising_hamiltonian"
    /\ ham_ret' = build_ising_hamiltonian(ham_args.num_qubits,
                      ham_args.interaction_matrix, ham_args.linear_terms)
    /\ ham_pc' = "done"
    /\ UNCHANGED <<ham_fn, ham_args, walk_vars, opt_vars, req_vars>>

Mvc ==
    /\ ham_pc = "call"
    /\ ham_fn = "mvc_hamiltonian"
    /\ ham_ret' = mvc_hamiltonian(ham_args.adjacency_matrix, ham_args.num_qubits)
    /\ ham_pc' = "done"
    /\ UNCHANGED <<ham_fn, ham_args, walk_vars, opt_vars, req_vars>>

WeightedMaxcut ==
    /\ ham_pc = "call"
    /\ ham_fn = "weighted_maxcut_hamiltonian"
    /\ ham_ret' = weighted_maxcut_hamiltonian(ham_args.adjacency_matrix,
                                              ham_args.num_qubits)
    /\ ham_pc' = "done"
    /\ UNCHANGED <<ham_fn, ham_args, walk_vars, opt_vars, req_vars>>

ParseHamiltonian ==
    /\ ham_pc = "call"
    /\ ham_fn = "parse_hamiltonian"
    /\ ham_ret' = parse_hamiltonian(ham_args.hamiltonian_str, ham_args.num_qubits)
    /\ ham_pc' = "done"
    /\ UNCHANGED <<ham_fn, ham_args, walk_vars, opt_vars, req_vars>>

\* the call returns (bases, scales); caller is the caller's list at that moment
MaxcutFromAdjacency ==
    /\ ham_pc = "call"
    /\ ham_fn = "maxcut_hamiltonian_from_adjacency"
    /\ LET out == maxcut_hamiltonian_from_adjacency(ham_args.adjacency_matrix,
                                                    ham_args.invert)
       IN  ham_ret' = out
    /\ ham_pc' = "done"
    /\ UNCHANGED <<ham_fn, ham_args, walk_vars, opt_vars, req_vars>>

HamNext == BuildIsing \/ Mvc \/ WeightedMaxcut \/ ParseHamiltonian \/ MaxcutFromAdjacency

(***************************************************************************)
(* The circuit builders as a state machine: a call and its return value.   *)
(***************************************************************************)
\* the angle parameters and the weights (in quarters) the circuits are built from
AngleValues == {0, 3}

CircuitWeights == {0, 4}

AngleLists == UNION { [1 .. k -> AngleValues] : k \in 0 .. MaxLayers }

UpperMatrices(n) ==
    { [i \in 0 .. n - 1 |-> [j \in 0 .. n - 1 |->
          IF i < j THEN u[<<i, j>>] ELSE 0]]
      : u \in [Pairs(n) -> CircuitWeights] }

CircInit ==
    /\ ham_pc = "call"
    /\ ham_ret = None
    /\ \E n \in 0 .. MaxQubits :
          \/ /\ ham_fn = "build_qaoa_circuit"
             /\ \E J \in UpperMatrices(n), h \in [0 .. n - 1 -> CircuitWeights] \cup {None},
                   g \in AngleLists, b \in AngleLists :
                   ham_args = [num_qubits |-> n, interaction_matrix |-> J,
                               gammas |-> g, betas |-> b, linear_terms |-> h]
          \/ /\ ham_fn = "build_vqe_ansatz"
             /\ \E d \in 0 .. MaxLayers :
                   ham_args = [num_qubits |-> n, depth |-> d]

BuildQaoaCircuit ==
    /\ ham_pc = "call"
    /\ ham_fn = "build_qaoa_circuit"
    /\ ham_ret' = build_qaoa_circuit(ham_args.num_qubits, ham_args.interaction_matrix,
                      ham_args.gammas, ham_args.betas, ham_args.linear_terms)
    /\ ham_pc' = "done"
    /\ UNCHANGED <<ham_fn, ham_args, walk_vars, opt_vars, req_vars>>

BuildVqeAnsatz ==
    /\ ham_pc = "call"
    /\ ham_fn = "build_vqe_ansatz"
    /\ ham_ret' = build_vqe_ansatz(ham_args.num_qubits, ham_args.depth)
    /\ ham_pc' = "done"
    /\ UNCHANGED <<ham_fn, ham_args, walk_vars, opt_vars, req_vars>>

CircNext == BuildQaoaCircuit \/ BuildVqeAnsatz

InitCirc == CircInit /\ WalkIdle /\ OptIdle /\ ReqIdle

SpecCirc == InitCirc /\ [][CircNext]_vars

(***************************************************************************)
(* simulation.py: build_circuit, run_circuit                               *)
(*                                                                         *)
(* A gate of the request is a name, a list of qubits and a list of         *)
(* parameters. The Aer simulator is outside the repository: on a circuit   *)
(* of x, cx, swap and ccx instructions it takes the register from one      *)
(* basis state to the next, and every shot measures the last one; on any   *)
(* other circuit it returns some counts of the shots.                      *)
(***************************************************************************)
\* a circuit has at most this many gates
MaxGates == 3

\* np.pi / 2, the angle of a rotation given without a parameter
HalfPi == "pi/2"

\* theta = params[0] if params else np.pi / 2
ThetaOf(params) == IF params # <<>> THEN params[1] ELSE HalfPi

\* qc.<method>(qubits[0], ...): the instruction is appended, or qubits[k]
\* does not exist
Instruction(qc, method, qubits, k) ==
    IF Len(qubits) < k THEN Raise("IndexError")
    ELSE AppendGate(qc, [name |-> method, qubits |-> Operands(qubits, k)])

\* qc.<method>(theta, qubits[0], ...)
Rotation(qc, method, params, qubits, k) ==
    IF Len(qubits) < k THEN Raise("IndexError")
    ELSE AppendGate(qc, [name |-> method, qubits |-> Operands(qubits, k),
                         angle |-> ThetaOf(params)])

\* qc.measure_all()
MeasureAll(qc) ==
    AppendGate(qc, [name |-> "measure", qubits |-> [k \in 1 .. qc.num_qubits |-> k - 1]])

\* one pass of the loop over gates: the if/elif chain; a gate of an unknown
\* name is skipped
CircuitGate(qc, gate) ==
    LET name == UpperName(gate.name)
        qubits == gate.qubits
    IN  IF name \in {"H", "X", "Y", "Z", "S", "T"}
        THEN Instruction(qc, Method(name), qubits, 1)
        ELSE IF name \in {"RX", "RY", "RZ"}
        THEN Rotation(qc, Method(name), gate.params, qubits, 1)
        ELSE IF name \in {"CNOT", "CX", "CY", "CZ", "CH", "SWAP"}
        THEN IF Len(qubits) >= 2 THEN Instruction(qc, Method(name), qubits, 2) ELSE qc
        ELSE IF name \in {"CRX", "CRY", "CRZ"}
        THEN IF Len(qubits) >= 2
             THEN Rotation(qc, Method(name), gate.params, qubits, 2)
             ELSE qc
        ELSE IF name = "CP"
        THEN IF Len(qubits) >= 2 THEN Rotation(qc, "cp", gate.params, qubits, 2) ELSE qc
        ELSE IF name \in {"CCX", "TOFFOLI", "CSWAP", "FREDKIN"}
        THEN IF Len(qubits) >= 3 THEN Instruction(qc, Method(name), qubits, 3) ELSE qc
        ELSE IF name = "M" THEN MeasureAll(qc)
        ELSE qc

\* for gate in gates: ...
RECURSIVE CircuitLoop(_, _)
CircuitLoop(gates, qc) ==
    IF IsException(qc) \/ gates = <<>> THEN qc
    ELSE CircuitLoop(Tail(gates), CircuitGate(qc, Head(gates)))

build_circuit(num_qubits, gates) == CircuitLoop(gates, QuantumCircuit(num_qubits))

\* the register in the state |0...0>: the bit of every qubit
ZeroRegister(num_qubits) == [q \in 0 .. num_qubits - 1 |-> 0]

\* the instructions that take a basis state to a basis state
BasisInstructions == {"x", "cx", "swap", "ccx", "measure"}

\* the simulator applies an instruction to a basis state
BasisStep(bits, instr) ==
    LET qs == instr.qubits
    IN  CASE instr.name = "x" -> [bits EXCEPT ![qs[1]] = 1 - @]
          [] instr.name = "cx" ->
                [bits EXCEPT ![qs[2]] = IF bits[qs[1]] = 1 THEN 1 - @ ELSE @]
          [] instr.name = "swap" ->
                [bits EXCEPT ![qs[1]] = bits[qs[2]], ![qs[2]] = bits[qs[1]]]
          [] instr.name = "ccx" ->
                [bits EXCEPT ![qs[3]] = IF bits[qs[1]] = 1 /\ bits[qs[2]] = 1
                                        THEN 1 - @ ELSE @]
          [] OTHER -> bits

RECURSIVE BasisRun(_, _)
BasisRun(data, bits) ==
    IF data = <<>> THEN bits ELSE BasisRun(Tail(data), BasisStep(bits, Head(data)))

\* mutant: the key of an outcome is written with qubit 0 first
Bitstring_qubit0first(bits) ==
    LET n == Cardinality(DOMAIN bits)
    IN  [k \in 1 .. n |-> IF bits[k - 1] = 1 THEN "1" ELSE "0"]

\* the key of an outcome in get_counts: the bit of the last qubit first
Bitstring(bits) ==
    LET n == Cardinality(DOMAIN bits)
    IN  [k \in 1 .. n |-> IF bits[n - k] = 1 THEN "1" ELSE "0"]

\* simulator.run(compiled, shots=shots).result().get_counts(circuit)
Outcomes(circuit, shots) ==
    IF \A k \in 1 .. Len(circuit.data) : circuit.data[k].name \in BasisInstructions
    THEN { <<[key |-> Bitstring(BasisRun(circuit.data, ZeroRegister(circuit.num_qubits))),
              value |-> shots]>> }
    ELSE SimCounts(circuit.num_qubits, shots)

\* if not circuit.clbits: circuit.measure_all()
Measured(circuit) ==
    IF \E k \in 1 .. Len(circuit.data) : circuit.data[k].name = "measure"
    THEN circuit
    ELSE MeasureAll(circuit)

\* a gate of a request with its parameters
RequestGate(name, qubits) == [name |-> name, qubits |-> qubits, params |-> <<>>]

\* the gates of the circuits on n qubits: X on every qubit, CX, CNOT, SWAP
\* and CCX on neighbouring qubits and, on one qubit, H
ExecGates(n) ==
    { RequestGate("X", <<q>>) : q \in 0 .. n - 1 }
    \cup { RequestGate("H", <<0>>) : q \in (IF n = 1 THEN {0} ELSE {}) }
    \cup UNION { { RequestGate("CX", <<q, (q + 1) % n>>),
                   RequestGate("cnot", <<(q + 1) % n, q>>),
                   RequestGate("SWAP", <<q, (q + 1) % n>>) }
                 : q \in (IF n >= 2 THEN 0 .. n - 1 ELSE {}) }
    \cup { RequestGate("CCX", <<q, (q + 1) % n, (q + 2) % n>>)
             : q \in (IF n >= 3 THEN 0 .. n - 1 ELSE {}) }

\* POST /execute: the request
ExecInit ==
    /\ ham_pc = "call"
    /\ ham_fn = "execute"
    /\ ham_ret = None
    /\ \E n \in 1 .. MaxQubits, len \in 0 .. MaxGates :
          \E gates \in [1 .. len -> ExecGates(n)] :
              ham_args = [num_qubits |-> n, gates |-> gates, shots |-> MaxShots]

\* circuit = build_circuit(request.num_qubits, gates_data)
BuildCircuit ==
    /\ ham_pc = "call"
    /\ ham_fn = "execute"
    /\ ham_ret' = [circuit |-> build_circuit(ham_args.num_qubits, ham_args.gates)]
    /\ ham_pc' = "built"
    /\ UNCHANGED <<ham_fn, ham_args, walk_vars, opt_vars, req_vars>>

\* result_counts = run_circuit(circuit, shots=request.shots): the circuit is
\* measured where it was built, and run
RunCircuit ==
    /\ ham_pc = "built"
    /\ ham_fn = "execute"
    /\ \E counts \in Outcomes(Measured(ham_ret.circuit), ham_args.shots) :
          ham_ret' = [circuit |-> Measured(ham_ret.circuit), counts |-> counts]
    /\ ham_pc' = "done"
    /\ UNCHANGED <<ham_fn, ham_args, walk_vars, opt_vars, req_vars>>

InitExec == ExecInit /\ WalkIdle /\ OptIdle /\ ReqIdle

SpecExec == InitExec /\ [][BuildCircuit \/ RunCircuit]_vars

(***************************************************************************)
(* quantum_walk.py: generate_graph                                         *)
(*                                                                         *)
(* The entries 0.0 and 1.0 of the matrix are written 0 and 1.              *)
(***************************************************************************)
\* the tags the function knows, and tags it does not know
KnownTopologies == {"cycle", "path", "complete", "star", "grid"}

UnknownTopologies == {"ring", "Grid"}

\* A = [[0.0] * n for _ in range(n)]
EmptyGraph(n) == [i \in 0 .. n - 1 |-> [j \in 0 .. n - 1 |-> 0]]

\* A[i][j] = 1.0; A[j][i] = 1.0
SetBoth(A, i, j) ==
    LET B == [A EXCEPT ![i][j] = 1]
    IN  [B EXCEPT ![j][i] = 1]

\* for i in range(n): A[i][(i + 1) % n] = 1.0; A[(i + 1) % n][i] = 1.0
RECURSIVE CycleLoop(_, _, _)
CycleLoop(A, n, i) ==
    IF i >= n THEN A ELSE CycleLoop(SetBoth(A, i, (i + 1) % n), n, i + 1)

\* for i in range(n - 1): A[i][i + 1] = 1.0; A[i + 1][i] = 1.0
RECURSIVE PathLoop(_, _, _)
PathLoop(A, n, i) ==
    IF i >= n - 1 THEN A ELSE PathLoop(SetBoth(A, i, i + 1), n, i + 1)

\* for j in range(i + 1, n): A[i][j] = 1.0; A[j][i] = 1.0
RECURSIVE CompleteInner(_, _, _, _)
CompleteInner(A, n, i, j) ==
    IF j >= n THEN A ELSE CompleteInner(SetBoth(A, i, j), n, i, j + 1)

\* for i in range(n): for j in range(i + 1, n): ...
RECURSIVE CompleteLoop(_, _, _)
CompleteLoop(A, n, i) ==
    IF i >= n THEN A ELSE CompleteLoop(CompleteInner(A, n, i, i + 1), n, i + 1)

\* for i in range(1, n): A[0][i] = 1.0; A[i][0] = 1.0
RECURSIVE StarLoop(_, _, _)
StarLoop(A, n, i) ==
    IF i >= n THEN A ELSE StarLoop(SetBoth(A, 0, i), n, i + 1)

\* int(math.ceil(math.sqrt(n))): the least s with s * s >= n
RECURSIVE CeilSqrtFrom(_, _)
CeilSqrtFrom(n, s) == IF s * s >= n THEN s ELSE CeilSqrtFrom(n, s + 1)

CeilSqrt(n) == CeilSqrtFrom(n, 0)

\* mutant: the last vertex of a row is linked to the first of the next row
GridStep_wrap(A, n, side, i) ==
    LET right == IF i + 1 < n THEN SetBoth(A, i, i + 1) ELSE A
    IN  IF i + side < n THEN SetBoth(right, i, i + side) ELSE right

\* r, c = divmod(i, side); if c + 1 < side and i + 1 < n: link i and i + 1;
\* if i + side < n: link i and i + side
GridStep(A, n, side, i) ==
    LET c == i % side
        right == IF c + 1 < side /\ i + 1 < n THEN SetBoth(A, i, i + 1) ELSE A
    IN  IF i + side < n THEN SetBoth(right, i, i + side) ELSE right

\* for i in range(n): ...
RECURSIVE GridLoop(_, _, _, _)
GridLoop(A, n, side, i) ==
    IF i >= n THEN A ELSE GridLoop(GridStep(A, n, side, i), n, side, i + 1)

generate_graph(topology, num_vertices) ==
    LET n == num_vertices
        A == EmptyGraph(n)
    IN  CASE topology = "cycle" -> CycleLoop(A, n, 0)
          [] topology = "path" -> PathLoop(A, n, 0)
          [] topology = "complete" -> CompleteLoop(A, n, 0)
          [] topology = "star" -> StarLoop(A, n, 1)
          [] topology = "grid" -> GridLoop(A, n, CeilSqrt(n), 0)
          [] OTHER -> PathLoop(A, n, 0)

(***************************************************************************)
(* The state machine of one call of generate_graph.                        *)
(***************************************************************************)
GraphInit ==
    /\ ham_pc = "call"
    /\ ham_ret = None
    /\ ham_fn = "generate_graph"
    /\ \E tag \in KnownTopologies \cup UnknownTopologies, n \in 0 .. MaxGraphVertices :
          ham_args = [topology |-> tag, num_vertices |-> n]

GenerateGraph ==
    /\ ham_pc = "call"
    /\ ham_fn = "generate_graph"
    /\ ham_ret' = generate_graph(ham_args.topology, ham_args.num_vertices)
    /\ ham_pc' = "done"
    /\ UNCHANGED <<ham_fn, ham_args, walk_vars, opt_vars, req_vars>>

InitGraph == GraphInit /\ WalkIdle /\ OptIdle /\ ReqIdle

SpecGraph == InitGraph /\ [][GenerateGraph]_vars

\* the calls and the walk of the runs interleaved with a walk: the first run
\* is a run_vqe or a run_optimization, the second a run_qaoa
MixCalls(r) ==
    { [call EXCEPT !.max_iter = 1] :
        call \in { c \in PairedCalls :
                     /\ c.runner = "run_optimization" => c.n_params = 0
                     /\ c.runner = "run_qaoa" <=> r = 2 } }

MixWalk ==
    /\ Shape0(walk_args.adjacency_matrix) = 2
    /\ walk_args.adjacency_matrix[0][1] = 1
    /\ walk_args.initial_vertex = 0
    /\ walk_args.num_steps = 1
    /\ walk_args.dt = 1

\* a run_vqe, a run_qaoa and a walk are followed two at a time, a
\* run_optimization together with the run_qaoa and the walk
InitMix ==
    /\ \E first \in MixCalls(1), second \in MixCalls(2) :
          opt_args = [r \in Runs |-> IF r = 1 THEN first ELSE second]
    /\ \/ /\ opt_pc = [r \in Runs |-> "call"]
          /\ IF opt_args[1].runner = "run_vqe"
             THEN WalkIdle
             ELSE WalkInitWith(1) /\ MixWalk
       \/ /\ \E absent \in Runs :
                opt_pc = [r \in Runs |-> IF r = absent THEN "unused" ELSE "call"]
          /\ opt_args[1].runner = "run_vqe"
          /\ WalkInitWith(1)
          /\ MixWalk
    /\ history = [r \in Runs |-> None]
    /\ returned = [r \in Runs |-> <<>>]
    /\ nit = [r \in Runs |-> 0]
    /\ opt_ret = [r \in Runs |-> None]
    /\ result = [r \in Runs |-> None]
    /\ response = [r \in Runs |-> Unanswered]
    /\ opt_qc = [r \in Runs |-> None]
    /\ HamIdle
    /\ ReqIdle

\* two optimisation runs and a walk, their steps interleaved in any order
SpecMix == InitMix /\ [][OptNext \/ WalkNext]_vars

(***************************************************************************)
(* quantum_walk.py: generate_walk_code                                     *)
(*                                                                         *)
(* The returned text is the name of its template with the values the       *)
(* template is filled with.                                                *)
(***************************************************************************)
Frameworks == {"qiskit", "pennylane", "cirq", "qsharp", "qasm"}

\* nq = max(1, int(math.ceil(math.log2(n)))) if n > 1 else 1
WalkCodeQubits(n) ==
    IF n > 1 THEN (IF CeilLog2(n) > 1 THEN CeilLog2(n) ELSE 1) ELSE 1

generate_walk_code(adjacency_matrix, initial_vertex, num_steps, dt, framework) ==
    LET n == Cardinality(DOMAIN adjacency_matrix)
        nq == WalkCodeQubits(n)
        t_final == num_steps * dt
    IN  IF framework \in Frameworks
        THEN [template |-> framework, n |-> n, nq |-> nq,
              initial_vertex |-> initial_vertex, t_final |-> t_final]
        ELSE [unsupported |-> framework]

\* generate_walk_code is called for the walk run_quantum_walk is called with
WalkCodeInit ==
    /\ WalkInit
    /\ ham_fn = "generate_walk_code"
    /\ ham_pc = "call"
    /\ ham_ret = None
    /\ \E framework \in Frameworks \cup {"braket"} :
          ham_args = [adjacency_matrix |-> walk_args.adjacency_matrix,
                      initial_vertex |-> walk_args.initial_vertex,
                      num_steps |-> walk_args.num_steps, dt |-> walk_args.dt,
                      framework |-> framework]

GenerateWalkCode ==
    /\ ham_pc = "call"
    /\ ham_fn = "generate_walk_code"
    /\ ham_ret' = generate_walk_code(ham_args.adjacency_matrix, ham_args.initial_vertex,
                                     ham_args.num_steps, ham_args.dt, ham_args.framework)
    /\ ham_pc' = "done"
    /\ UNCHANGED <<ham_fn, ham_args, walk_vars, opt_vars, req_vars>>

InitWalkCode == WalkCodeInit /\ OptIdle /\ ReqIdle

\* the set-up of run_quantum_walk and generate_walk_code on the same graph
SpecWalkCode == InitWalkCode /\ [][WalkSetup \/ GenerateWalkCode]_vars

InitHam == HamInit /\ WalkIdle /\ OptIdle /\ ReqIdle

SpecHam == InitHam /\ [][HamNext]_vars

InitWalk == WalkInit /\ HamIdle /\ OptIdle /\ ReqIdle

SpecWalk == InitWalk /\ [][WalkNext]_vars

InitOpt == OptInit /\ HamIdle /\ WalkIdle /\ ReqIdle

SpecOpt == InitOpt /\ [][OptNext]_vars

InitRun == RunInit /\ HamIdle /\ WalkIdle /\ ReqIdle

SpecRun == InitRun /\ [][OptNext]_vars

InitReq == ReqInit /\ HamIdle /\ WalkIdle /\ OptIdle

SpecReq == InitReq /\ [][ReqNext]_vars

(***************************************************************************)
(* Properties of the Hamiltonian builders.                                 *)
(***************************************************************************)
HamDone(fn) == ham_pc = "done" /\ ham_fn = fn

\* the pairs i < j with a nonzero entry above the diagonal
NonzeroPairs(n, M) == {p \in Pairs(n) : M[p[1]][p[2]] # 0}

\* the qubits with a nonzero field
NonzeroFields(n, h) == IF h = None THEN {} ELSE {i \in 0 .. n - 1 : h[i] # 0}

\* the place of a pair among the pairs of P in lexicographic order
PairRank(P, p) ==
    1 + Cardinality({q \in P : q[1] < p[1] \/ (q[1] = p[1] /\ q[2] < p[2])})

\* the place of a qubit among the qubits of F in increasing order
FieldRank(F, i) == 1 + Cardinality({k \in F : k < i})

\* the basis-string with Z on the qubits of Q and I elsewhere, qubit 0 rightmost
ZString(n, Q) == [k \in 1 .. n |-> IF (n - k) \in Q THEN "Z" ELSE "I"]

\* the zero operator: the single all-I string with coefficient 0
ZeroOperator(n) == [paulis |-> <<[k \in 1 .. n |-> "I"]>>, coeffs |-> <<0>>]

\* op holds one ZZ term per pair of P, in order, then one Z term per qubit of F
TermsAsListed(op, n, J, h, P, F) ==
    /\ Len(op.paulis) = Cardinality(P) + Cardinality(F)
    /\ Len(op.coeffs) = Cardinality(P) + Cardinality(F)
    /\ \A p \in P :
          /\ op.paulis[PairRank(P, p)] = ZString(n, {p[1], p[2]})
          /\ op.coeffs[PairRank(P, p)] = J[p[1]][p[2]]
    /\ \A i \in F :
          /\ op.paulis[Cardinality(P) + FieldRank(F, i)] = ZString(n, {i})
          /\ op.coeffs[Cardinality(P) + FieldRank(F, i)] = h[i]

\* C1 (as stated): build_ising_hamiltonian returns exactly the ZZ terms of the
\* nonzero pairs i < j in lexicographic order followed by the Z terms of the
\* nonzero fields in increasing order and no other term, whatever is on or
\* below the diagonal of J; the term count is at most pairs + fields, and is 1
\* when all of J and h is zero.
C1_Original ==
    HamDone("build_ising_hamiltonian") =>
        LET n == ham_args.num_qubits
            J == ham_args.interaction_matrix
            h == ham_args.linear_terms
            P == NonzeroPairs(n, J)
            F == NonzeroFields(n, h)
        IN  /\ TermsAsListed(ham_ret, n, J, h, P, F)
            /\ Len(ham_ret.paulis) <= Cardinality(P) + Cardinality(F)
            /\ (P = {} /\ F = {}) => Len(ham_ret.paulis) = 1

\* C1 (amended): when some pair above the diagonal or some field is nonzero,
\* build_ising_hamiltonian returns exactly the ZZ terms of the nonzero pairs
\* i < j in lexicographic order followed by the Z terms of the nonzero fields
\* in increasing order, whatever is on or below the diagonal of J; when none
\* is, it returns the single zero term, so the term count is at most
\* max(1, pairs + fields).
C1_IsingTerms ==
    HamDone("build_ising_hamiltonian") =>
        LET n == ham_args.num_qubits
            J == ham_args.interaction_matrix
            h == ham_args.linear_terms
            P == NonzeroPairs(n, J)
            F == NonzeroFields(n, h)
        IN  IF P = {} /\ F = {}
            THEN ham_ret = ZeroOperator(n)
            ELSE TermsAsListed(ham_ret, n, J, h, P, F)

\* C1 witness: a call with two nonzero pairs, a nonzero field and a nonzero
\* entry below the diagonal has returned.
C1_Witness ==
    /\ HamDone("build_ising_hamiltonian")
    /\ ham_args.num_qubits = 3
    /\ Cardinality(NonzeroPairs(3, ham_args.interaction_matrix)) = 2
    /\ Cardinality(NonzeroFields(3, ham_args.linear_terms)) = 1
    /\ ham_args.interaction_matrix[2][0] # 0
    /\ Len(ham_ret.paulis) = 3

\* a returned value is an operator of n-character strings over I, X, Y, Z
WellFormedOperator(op, n) ==
    /\ DOMAIN op = {"paulis", "coeffs"}
    /\ Len(op.paulis) >= 1
    /\ Len(op.coeffs) = Len(op.paulis)
    /\ \A k \in 1 .. Len(op.paulis) :
          /\ Len(op.paulis[k]) = n
          /\ \A c \in 1 .. n : op.paulis[k][c] \in {"I", "X", "Y", "Z"}

\* a text all of whose "+"-separated segments are empty or whitespace
BlankText(t) == t # None /\ \A k \in 1 .. Len(t) : t[k] \in {" ", "+"}

\* C2: every operator returned by parse_hamiltonian and by
\* build_ising_hamiltonian has at least one term and only strings of length n
\* over {I, X, Y, Z}; for a blank text, and for J and h all zero, it is the
\* single all-I string with coefficient 0.
C2_OperatorWellFormed ==
    /\ HamDone("parse_hamiltonian") =>
          /\ WellFormedOperator(ham_ret, ham_args.num_qubits)
          /\ BlankText(ham_args.hamiltonian_str)
                => ham_ret = ZeroOperator(ham_args.num_qubits)
    /\ HamDone("build_ising_hamiltonian") =>
          /\ WellFormedOperator(ham_ret, ham_args.num_qubits)
          /\ ( /\ NonzeroPairs(ham_args.num_qubits, ham_args.interaction_matrix) = {}
               /\ NonzeroFields(ham_args.num_qubits, ham_args.linear_terms) = {} )
                => ham_ret = ZeroOperator(ham_args.num_qubits)

\* C2 witness: parse_hamiltonian has returned for a blank text that is not empty.
C2_Witness ==
    /\ HamDone("parse_hamiltonian")
    /\ ham_args.num_qubits = 2
    /\ ham_args.hamiltonian_str = <<" ", "+", " ">>
    /\ ham_ret = ZeroOperator(2)

\* C5: mvc_hamiltonian returns J with 0.75 exactly at each pair i < j whose
\* adjacency entry is nonzero and 0 elsewhere, and h[i] = 0.75 * (edges above
\* the diagonal that touch i) - 1.0; a single edge (0, 1) gives J[0][1] = 0.75
\* and h[0] = h[1] = -0.25.
C5_VertexCover ==
    HamDone("mvc_hamiltonian") =>
        LET n == ham_args.num_qubits
            E == NonzeroPairs(n, ham_args.adjacency_matrix)
        IN  /\ DOMAIN ham_ret.J = 0 .. n - 1
            /\ DOMAIN ham_ret.h = 0 .. n - 1
            /\ \A i, j \in 0 .. n - 1 :
                  ham_ret.J[i][j] = IF <<i, j>> \in E THEN 3 ELSE 0
            /\ \A i \in 0 .. n - 1 :
                  ham_ret.h[i] = 3 * Cardinality({p \in E : i \in {p[1], p[2]}}) - 4
            /\ (n = 2 /\ E = {<<0, 1>>}) =>
                  /\ ham_ret.J[0][1] = 3
                  /\ ham_ret.h[0] = -1
                  /\ ham_ret.h[1] = -1

\* C5 witness: mvc_hamiltonian has returned for a path 0 - 1 - 2, whose middle
\* vertex carries two edges.
C5_Witness ==
    /\ HamDone("mvc_hamiltonian")
    /\ ham_args.num_qubits = 3
    /\ NonzeroPairs(3, ham_args.adjacency_matrix) = {<<0, 1>>, <<1, 2>>}
    /\ ham_ret.h[1] = 2

\* the value of a basis-string on a computational basis state: Z is +1 on bit
\* 0 and -1 on bit 1, I is 1, and X and Y have no diagonal part
RECURSIVE StringValue(_, _, _, _)
StringValue(pauli, bits, n, q) ==
    IF q >= n THEN 1
    ELSE LET c == pauli[n - q]
             v == IF c = "I" THEN 1
                  ELSE IF c = "Z" THEN (IF bits[q] = 0 THEN 1 ELSE -1)
                  ELSE 0
         IN  v * StringValue(pauli, bits, n, q + 1)

\* the energy <bits| op |bits> of an operator on a basis state
RECURSIVE EnergySum(_, _, _, _)
EnergySum(op, bits, n, k) ==
    IF k > Len(op.paulis) THEN 0
    ELSE op.coeffs[k] * StringValue(op.paulis[k], bits, n, 0)
         + EnergySum(op, bits, n, k + 1)

Energy(op, bits, n) == EnergySum(op, bits, n, 1)

\* C6: for two vertices joined by one edge of weight w > 0, the operator that
\* build_ising_hamiltonian makes of weighted_maxcut_hamiltonian's (J, h) has
\* strictly lower energy on the cut states 01 and 10 than on 00 and 11.
C6_MaxcutFavoursCut ==
    ( /\ HamDone("weighted_maxcut_hamiltonian")
      /\ ham_args.num_qubits = 2
      /\ ham_args.adjacency_matrix[0][1] > 0 ) =>
        LET op == build_ising_hamiltonian(2, ham_ret.J, ham_ret.h)
            cut == {b \in [0 .. 1 -> {0, 1}] : b[0] # b[1]}
            uncut == {b \in [0 .. 1 -> {0, 1}] : b[0] = b[1]}
        IN  \A c \in cut, u \in uncut : Energy(op, c, 2) < Energy(op, u, 2)

\* C7: weighted_maxcut_hamiltonian returns J with -adjacency[i][j] at each pair
\* i < j whose adjacency entry is nonzero and 0 in every other entry, and h of
\* n zeros.
C7_WeightedMaxcut ==
    HamDone("weighted_maxcut_hamiltonian") =>
        LET n == ham_args.num_qubits
            A == ham_args.adjacency_matrix
        IN  /\ DOMAIN ham_ret.J = 0 .. n - 1
            /\ \A i, j \in 0 .. n - 1 :
                  ham_ret.J[i][j] = IF i < j /\ A[i][j] # 0 THEN 0 - A[i][j] ELSE 0
            /\ ham_ret.h = [i \in 0 .. n - 1 |-> 0]

\* C7 witness: weighted_maxcut_hamiltonian has returned for a symmetric matrix
\* with two edges of different weight.
C7_Witness ==
    /\ HamDone("weighted_maxcut_hamiltonian")
    /\ ham_args.num_qubits = 3
    /\ ham_args.adjacency_matrix[0][1] = 8
    /\ ham_args.adjacency_matrix[1][0] = 8
    /\ ham_args.adjacency_matrix[1][2] = -4
    /\ ham_ret.J[0][1] = -8
    /\ ham_ret.J[1][2] = 4

\* C8: parse_hamiltonian returns an operator for every text and qubit count
\* and never raises; when parsing fails with an exception it returns the zero
\* operator.
C8_ParseNeverRaises ==
    HamDone("parse_hamiltonian") =>
        /\ ~IsException(ham_ret)
        /\ WellFormedOperator(ham_ret, ham_args.num_qubits)
        /\ IsException(ParseBody(ham_args.hamiltonian_str, ham_args.num_qubits))
              => ham_ret = ZeroOperator(ham_args.num_qubits)

\* C8 witness: parse_hamiltonian has returned from a call whose parsing raised.
C8_Witness ==
    /\ HamDone("parse_hamiltonian")
    /\ ham_args.hamiltonian_str = None
    /\ ham_args.num_qubits = 2
    /\ ham_ret = ZeroOperator(2)

\* a Pauli letter directly followed by a digit somewhere in the text
HasPauliFactor(t) ==
    \E k \in 1 .. Len(t) - 1 : IsPauliLetter(t[k]) /\ IsDigit(t[k + 1])

\* C9: for a text that is not blank and holds no recognisable Pauli factor,
\* parse_hamiltonian returns an operator whose coefficients are all zero.
C9_MalformedIsZero ==
    ( /\ HamDone("parse_hamiltonian")
      /\ ham_args.hamiltonian_str # None
      /\ ~BlankText(ham_args.hamiltonian_str)
      /\ ~HasPauliFactor(ham_args.hamiltonian_str) ) =>
        \A k \in 1 .. Len(ham_ret.coeffs) : ham_ret.coeffs[k] = 0

(***************************************************************************)
(* Properties of the quantum walk.                                         *)
(***************************************************************************)
\* the amplitude that stands for 1
UnitAmplitude == Factorial(MaxOrder)

\* the probability that stands for 1
UnitProbability == UnitAmplitude * UnitAmplitude

\* a snapshot has been computed: psi_t holds its state vector
SnapshotTaken == walk_pc \in {"loop", "sample"} /\ step >= 1

\* C3: at every snapshot time the amplitude, and so the probability, on every
\* padding index k with num_vertices <= k < 2^num_qubits is exactly 0.
C3_PaddingStaysEmpty ==
    SnapshotTaken =>
        \A k \in walk_num_vertices .. Power(2, walk_num_qubits) - 1 :
            /\ psi_t[k] = Complex(0, 0)
            /\ AbsSquared(psi_t[k]) = 0

\* C3 witness: on three vertices (one padding index) the walker has left its
\* initial vertex at a time t > 0.
C3_Witness ==
    /\ SnapshotTaken
    /\ walk_num_vertices = 3
    /\ Power(2, walk_num_qubits) = 4
    /\ step >= 2
    /\ \E k \in 0 .. 2 : k # walk_args.initial_vertex /\ psi_t[k] # Complex(0, 0)

\* C4: the first snapshot is taken at t = 0 and holds probability 1 at the
\* initial vertex and 0 at every other vertex.
C4_StartsAtInitialVertex ==
    (walk_pc \in {"loop", "sample"} /\ Len(probability_evolution) >= 1) =>
        /\ probability_evolution[1].time = 0
        /\ probability_evolution[1].probabilities =
              [k \in 0 .. Shape0(walk_args.adjacency_matrix) - 1 |->
                  IF k = walk_args.initial_vertex THEN UnitProbability ELSE 0]

\* C4 witness: the first snapshot of a walk that starts on vertex 1 of a
\* connected three-vertex graph has been taken.
C4_Witness ==
    /\ walk_pc = "loop"
    /\ Len(probability_evolution) = 1
    /\ walk_args.initial_vertex = 1
    /\ walk_num_vertices = 3
    /\ walk_args.adjacency_matrix[0][1] = 1
    /\ walk_args.adjacency_matrix[1][2] = 1

(***************************************************************************)
(* Properties of the optimisation runs.                                    *)
(***************************************************************************)
IsPrefix(a, b) == Len(a) <= Len(b) /\ SubSeq(b, 1, Len(a)) = a

\* the history of run r is the list of the scalars its cost_func has returned
HistoryMatchesCalls(r) ==
    /\ opt_pc[r] \in {"minimize", "no_params"} => history[r] = returned[r]
    /\ opt_pc[r] = "done" =>
          /\ history[r] = returned[r]
          /\ opt_ret[r].history = returned[r]
          /\ Len(opt_ret[r].history) = Len(returned[r])

\* a step leaves the history of run r alone or appends to it the one scalar
\* that the one new call of cost_func returned
HistoryAppendOnly(r) ==
    opt_pc[r] \in {"minimize", "no_params"} =>
        \/ history'[r] = history[r] /\ returned'[r] = returned[r]
        \/ /\ Len(returned'[r]) = Len(returned[r]) + 1
           /\ IsPrefix(returned[r], returned'[r])
           /\ history'[r] = Append(history[r], returned'[r][Len(returned'[r])])

Terminal(r) == opt_pc[r] \in {"done", "raised"}

\* the run went through minimize and returned its dict
Minimized(r) == opt_pc[r] = "done" /\ opt_args[r].n_params > 0

\* the endpoint has answered for a run whose oracle raised
FailedAndAnswered(r) == opt_pc[r] = "raised" /\ "status_code" \in DOMAIN response[r]

\* C11: once the oracle has failed in a run, the run's answer retains the
\* triggering error and the partial cost history recorded before the failure,
\* with no entry for the failing evaluation.
C11_FailureKeepsHistory ==
    \A r \in Runs :
        FailedAndAnswered(r) =>
            /\ response[r].detail = opt_ret[r].exception
            /\ "history" \in DOMAIN response[r]
            /\ response[r].history = returned[r]

\* Initialized -> Running -> one terminal state, which is never left
RunLifecycle(r) ==
    /\ opt_pc[r] = "call" => opt_pc'[r] \in {"call", "minimize", "no_params"}
    /\ opt_pc[r] \in {"minimize", "no_params"} =>
          opt_pc'[r] \in {opt_pc[r], "done", "raised"}
    /\ Terminal(r) => opt_pc'[r] = opt_pc[r] /\ opt_ret'[r] = opt_ret[r]

\* a run whose minimizer used up max_iter is reported as completed with the
\* minimizer's own message, which is not the message of a converged run, and
\* with the minimizer's parameters, energy and the full history
MaxIterReported(r) ==
    Minimized(r) =>
        /\ opt_ret[r].status = "completed"
        /\ opt_ret[r].message = MaxIterMessage <=> ~result[r].success
        /\ opt_ret[r].message = ConvergedMessage <=> result[r].success
        /\ opt_ret[r].optimal_params = result[r].x
        /\ opt_ret[r].optimal_energy = result[r].fun
        /\ opt_ret[r].history = returned[r]

IsQaoa(r) == opt_args[r].runner = "run_qaoa"

\* the weights a rotation about Z on qubit q can stand for: a coupling that
\* ends on q, or the field on q
WeightsOn(call, q) ==
    { call.interaction_matrix[i][q] : i \in 0 .. q - 1 }
    \cup (IF Truthy(call.linear_terms) THEN {call.linear_terms[q]} ELSE {})

\* the layer (from 1) that instruction k of a circuit of p equal layers after
\* the Hadamard layer belongs to
LayerAt(circ, p, k) ==
    LET length == (Len(circ.data) - circ.num_qubits) \div p
    IN  ((k - circ.num_qubits - 1) \div length) + 1

\* every rotation of layer l of the circuit uses entry l-1 of x as gamma, or
\* entry p+l-1 of x as beta
UsesLayout(circ, call, x) ==
    LET p == call.p_layers
    IN  \A k \in circ.num_qubits + 1 .. Len(circ.data) :
            LET gate == circ.data[k]
                l == LayerAt(circ, p, k)
            IN  /\ l \in 1 .. p
                /\ gate.name = "rz" =>
                      gate.angle \in { 2 * x[l - 1] * w : w \in WeightsOn(call, gate.qubits[1]) }
                /\ gate.name = "rx" => gate.angle = 2 * x[p + l - 1]

\* C16: run_qaoa with p layers optimises a vector of 2p entries; the circuit
\* of every cost evaluation and the final circuit use entries 0..p-1 as the
\* gammas of layers 1..p and entries p..2p-1 as their betas, one gamma and
\* one beta for all terms of a layer, and the returned optimal_gammas and
\* optimal_betas each have p entries.
C16_QaoaParameterLayout ==
    \A r \in Runs :
        IsQaoa(r) =>
            LET p == opt_args[r].p_layers
                calls == Len(returned[r])
            IN  /\ (opt_pc[r] = "minimize" /\ calls >= 1) =>
                      /\ DOMAIN Point(calls, opt_args[r].n_params) = 0 .. 2 * p - 1
                      /\ UsesLayout(opt_qc[r], opt_args[r],
                                    Point(calls, opt_args[r].n_params))
                /\ opt_pc[r] = "done" =>
                      /\ DOMAIN result[r].x = 0 .. 2 * p - 1
                      /\ UsesLayout(opt_qc[r], opt_args[r], result[r].x)
                      /\ Len(opt_ret[r].optimal_gammas) = p
                      /\ Len(opt_ret[r].optimal_betas) = p
                      /\ \A l \in 1 .. p :
                            /\ opt_ret[r].optimal_gammas[l] = result[r].x[l - 1]
                            /\ opt_ret[r].optimal_betas[l] = result[r].x[p + l - 1]

\* C16 witness: a run_qaoa of two layers on a problem with a coupling and a
\* field has returned the parameters of its second evaluation.
C16_Witness ==
    /\ IsQaoa(1)
    /\ opt_pc[1] = "done"
    /\ opt_args[1].p_layers = 2
    /\ Truthy(opt_args[1].linear_terms)
    /\ opt_ret[1].optimal_gammas = <<5, 6>>
    /\ opt_ret[1].optimal_betas = <<7, 8>>
    /\ Len(opt_qc[1].data) = 2 + 2 * (3 + 1 + 2)

\* the state at time t, propagated from the walk's t = 0 state
PropagatedFromZero(t) ==
    LET dim == Power(2, QubitsFor(Shape0(walk_args.adjacency_matrix)))
        A == PadAdjacency(walk_args.adjacency_matrix,
                          Shape0(walk_args.adjacency_matrix), dim)
    IN  MatVec(Expm(MinusIAt(A, t, dim), dim),
               InitialState(walk_args.initial_vertex, dim), dim)

\* the snapshots taken so far: one per step, each of V probabilities, each
\* those of the t = 0 state propagated to k * dt, with psi0 and A_padded
\* still as set up
SnapshotsFromTimeZero ==
    walk_pc \in {"loop", "sample"} =>
        LET V == Shape0(walk_args.adjacency_matrix)
            dim == Power(2, QubitsFor(V))
        IN  /\ Len(probability_evolution) = step
            /\ walk_pc = "sample" => Len(probability_evolution) = walk_args.num_steps + 1
            /\ psi0 = InitialState(walk_args.initial_vertex, dim)
            /\ A_padded = PadAdjacency(walk_args.adjacency_matrix, V, dim)
            /\ \A k \in 0 .. Len(probability_evolution) - 1 :
                  LET snapshot == probability_evolution[k + 1]
                      psi == PropagatedFromZero(k * walk_args.dt)
                  IN  /\ DOMAIN snapshot.probabilities = 0 .. V - 1
                      /\ \A v \in 0 .. V - 1 :
                            snapshot.probabilities[v] = AbsSquared(psi[v])

\* the snapshots taken so far are labelled k * dt, in increasing order
SnapshotsLabelled ==
    walk_pc \in {"loop", "sample"} =>
        \A k \in 0 .. Len(probability_evolution) - 1 :
            /\ probability_evolution[k + 1].time = k * walk_args.dt
            /\ k >= 1 => probability_evolution[k].time < probability_evolution[k + 1].time

\* C18: run_quantum_walk produces num_steps + 1 snapshots in increasing time
\* order, the k-th labelled k * dt and carrying V probabilities, each
\* computed from the unchanged t = 0 state and the unchanged padded matrix.
C18_SnapshotsFromTimeZero == SnapshotsLabelled /\ SnapshotsFromTimeZero

\* the vertex pairs a topology links on V vertices
CycleEdges(V) == { {i, (i + 1) % V} : i \in 0 .. V - 1 }

PathEdges(V) == { {i, i + 1} : i \in 0 .. V - 2 }

CompleteEdges(V) == { {i, j} : i \in 0 .. V - 1, j \in 0 .. V - 1 } \ { {i} : i \in 0 .. V - 1 }

StarEdges(V) == { {0, i} : i \in 1 .. V - 1 }

\* row-major on rows of ceil(sqrt(V)) vertices: the right neighbour in the
\* same row and the neighbour below, where they exist
GridEdges(V) ==
    LET side == CeilSqrt(V)
    IN  { {i, i + 1} : i \in { k \in 0 .. V - 2 : k \div side = (k + 1) \div side } }
        \cup { {i, i + side} : i \in 0 .. V - 1 - side }

TopologyEdges(tag, V) ==
    CASE tag = "cycle" -> CycleEdges(V)
      [] tag = "path" -> PathEdges(V)
      [] tag = "complete" -> CompleteEdges(V)
      [] tag = "star" -> StarEdges(V)
      [] tag = "grid" -> GridEdges(V)
      [] OTHER -> PathEdges(V)

GraphGenerated == ham_fn = "generate_graph" /\ ham_pc = "done"

\* C19: generate_graph returns a V x V symmetric matrix of zeros and ones
\* whose ones are exactly the edges of the topology asked for: cycle, path,
\* complete, star or grid; a tag it does not know yields the path's matrix,
\* and nothing is raised.
C19_GraphTopologies ==
    GraphGenerated =>
        LET V == ham_args.num_vertices
            A == ham_ret
        IN  /\ DOMAIN A = 0 .. V - 1
            /\ \A i \in 0 .. V - 1 :
                  /\ DOMAIN A[i] = 0 .. V - 1
                  /\ \A j \in 0 .. V - 1 :
                        /\ A[i][j] \in {0, 1}
                        /\ A[i][j] = A[j][i]
                        /\ A[i][j] = 1 <=> {i, j} \in TopologyEdges(ham_args.topology, V)
            /\ ham_args.topology \notin KnownTopologies =>
                  A = generate_graph("path", V)

\* C19 witness: the grid on five vertices, rows 0 1 2 and 3 4: vertex 1 is
\* linked to 4 below it, the end of the first row is not linked to 3.
C19_Witness ==
    /\ GraphGenerated
    /\ ham_args.topology = "grid"
    /\ ham_args.num_vertices = 5
    /\ ham_ret[1][4] = 1
    /\ ham_ret[0][1] = 1
    /\ ham_ret[2][3] = 0

\* everything that belongs to run r
RunState(r) ==
    <<opt_args[r], opt_pc[r], history[r], returned[r], nit[r], opt_ret[r],
      result[r], response[r], opt_qc[r]>>

\* a step of run r changes nothing of another run and nothing of the walk
RunStepIsolated(r) ==
    RunState(r)' # RunState(r) =>
        /\ \A q \in Runs \ {r} : RunState(q)' = RunState(q)
        /\ UNCHANGED walk_vars

\* a step of the walk changes nothing of any run
WalkStepIsolated == walk_vars' # walk_vars => UNCHANGED opt_vars

\* the history run r returns is the sequence of the costs of its own calls
OwnHistory(r) ==
    Minimized(r) =>
        /\ opt_ret[r].history = returned[r]
        /\ response[r].history = returned[r]

InvalidConfiguration(body) ==
    \/ body.endpoint \in {"/qaoa", "/vqe"} /\ body.num_qubits = 0
    \/ body.endpoint \in {"/qaoa", "/vqe"} /\ body.layers < 0
    \/ ~IsSymmetric(body.matrix)

\* C13: an invalid configuration (zero qubits, negative depth or layer count,
\* a non-square or non-symmetric matrix) is answered with an error before any
\* evaluation is made for it.
C13_InvalidRejectedEagerly ==
    InvalidConfiguration(request) => evaluations = 0

(***************************************************************************)
(* Properties of the circuit builders.                                     *)
(***************************************************************************)
\* the list [gate(q) for q in range(n)] for the Hadamard layer and a mixer layer
HLayer(n) == [k \in 1 .. n |-> H(k - 1)]

MixerLayer(n, beta) == [k \in 1 .. n |-> RX(2 * beta, k - 1)]

\* the mixer layers of the first p layers, in order
RECURSIVE MixerLayers(_, _, _)
MixerLayers(n, betas, p) ==
    IF p = 0 THEN <<>>
    ELSE MixerLayers(n, betas, p - 1) \o MixerLayer(n, betas[p])

IsIdentityRotation(gate) == gate.name = "rz" /\ gate.angle = 0

\* the instructions without the rotations by angle 0
RECURSIVE DropIdentityRotations(_)
DropIdentityRotations(data) ==
    IF data = <<>> THEN <<>>
    ELSE IF IsIdentityRotation(Head(data)) THEN DropIdentityRotations(Tail(data))
    ELSE <<Head(data)>> \o DropIdentityRotations(Tail(data))

\* the instructions without the pairs of one CX directly after the same CX
RECURSIVE CancelCX(_)
CancelCX(data) ==
    IF Len(data) < 2 THEN data
    ELSE IF data[1].name = "cx" /\ data[2] = data[1]
    THEN CancelCX(Tail(Tail(data)))
    ELSE <<Head(data)>> \o CancelCX(Tail(data))

QaoaBuilt ==
    /\ HamDone("build_qaoa_circuit")
    /\ Len(ham_args.betas) >= Len(ham_args.gammas)

AllZero(angles) == \A k \in 1 .. Len(angles) : angles[k] = 0

\* C14: with gamma = 0 in every layer, every rotation of a cost sub-layer of
\* build_qaoa_circuit has angle 0, and with those rotations and the pairs of
\* equal CX gates around them taken out, the circuit is the Hadamard layer
\* followed by the mixer layers alone, whatever J and h are.
C14_ZeroGammaIsMixerOnly ==
    (QaoaBuilt /\ AllZero(ham_args.gammas)) =>
        /\ \A k \in 1 .. Len(ham_ret.data) :
              ham_ret.data[k].name = "rz" => ham_ret.data[k].angle = 0
        /\ CancelCX(DropIdentityRotations(ham_ret.data))
             = HLayer(ham_args.num_qubits)
               \o MixerLayers(ham_args.num_qubits, ham_args.betas, Len(ham_args.gammas))

\* C14 witness: two layers with gamma = 0 over a coupling and a field that are
\* not zero: the circuit holds a CX/RZ/CX sandwich and a field rotation.
C14_Witness ==
    /\ QaoaBuilt
    /\ ham_args.gammas = <<0, 0>>
    /\ ham_args.num_qubits = 2
    /\ ham_args.interaction_matrix[0][1] # 0
    /\ Truthy(ham_args.linear_terms)
    /\ ham_args.linear_terms[0] # 0
    /\ Len(ham_ret.data) = 2 + 2 * (3 + 1 + 2)

\* the instructions of one layer of the ansatz, from the parameter list
AnsatzLayer(n, params, layer) ==
    [k \in 1 .. n |-> RY(params[layer * n + k], k - 1)]
    \o [k \in 1 .. n - 1 |-> CX(k - 1, k)]

RECURSIVE AnsatzLayers(_, _, _)
AnsatzLayers(n, params, depth) ==
    IF depth = 0 THEN <<>>
    ELSE AnsatzLayers(n, params, depth - 1) \o AnsatzLayer(n, params, depth - 1)

\* C15: build_vqe_ansatz(n, depth) returns depth * n pairwise distinct
\* parameters, and its circuit is depth repetitions of one RY per qubit
\* 0..n-1, each on its own parameter in the order of the returned list,
\* followed by CX(q, q+1) for q = 0..n-2.
C15_VqeAnsatz ==
    HamDone("build_vqe_ansatz") =>
        LET n == ham_args.num_qubits
            depth == ham_args.depth
            params == ham_ret.params
        IN  /\ Len(params) = depth * n
            /\ \A a, b \in 1 .. Len(params) : a # b => params[a] # params[b]
            /\ ham_ret.qc.num_qubits = n
            /\ ham_ret.qc.data = AnsatzLayers(n, params, depth)

\* C15 witness: an ansatz of two layers on three qubits: six parameters, and
\* ten instructions.
C15_Witness ==
    /\ HamDone("build_vqe_ansatz")
    /\ ham_args.num_qubits = 3
    /\ ham_args.depth = 2
    /\ Len(ham_ret.params) = 6
    /\ Len(ham_ret.qc.data) = 10

\* the builder was asked for no layer or for no qubit
VqeDegenerate ==
    /\ HamDone("build_vqe_ansatz")
    /\ (ham_args.depth = 0 \/ ham_args.num_qubits = 0)

QaoaDegenerate ==
    /\ HamDone("build_qaoa_circuit")
    /\ \/ ham_args.gammas = <<>> /\ ham_args.betas = <<>>
       \/ ham_args.num_qubits = 0 /\ Len(ham_args.betas) >= Len(ham_args.gammas)

\* C17 as stated: an ansatz built with zero layers or zero qubits holds no gate.
C17_Original ==
    /\ VqeDegenerate => ham_ret.qc.data = <<>>
    /\ QaoaDegenerate => ~IsException(ham_ret) /\ ham_ret.data = <<>>

\* C17: building with zero layers or zero qubits does not raise; the ansatz
\* of build_vqe_ansatz then holds no gate, and so does the circuit of
\* build_qaoa_circuit for zero qubits, while for zero layers on n >= 1 qubits
\* build_qaoa_circuit returns the Hadamard layer alone (no cost gate and no
\* mixer gate).
C17_DegenerateCircuits ==
    /\ VqeDegenerate => ham_ret.qc.data = <<>> /\ ham_ret.params = <<>>
    /\ QaoaDegenerate =>
          /\ ~IsException(ham_ret)
          /\ ham_ret.data = HLayer(ham_args.num_qubits)

\* C17 witness: build_qaoa_circuit was called with empty gammas and betas on
\* three qubits with couplings, and returned three gates.
C17_Witness ==
    /\ QaoaDegenerate
    /\ ham_args.num_qubits = 3
    /\ ham_args.gammas = <<>>
    /\ ham_args.interaction_matrix[0][1] # 0
    /\ Len(ham_ret.data) = 3

\* the concatenation of the sequences of a sequence
RECURSIVE Flatten(_)
Flatten(seqs) == IF seqs = <<>> THEN <<>> ELSE Head(seqs) \o Flatten(Tail(seqs))

\* the gates of one cost sub-layer over the couplings: the pairs (i, j) in
\* lexicographic order, a CX / RZ / CX sandwich for each i < j with J[i][j] # 0
CouplingGates(n, J, gamma) ==
    Flatten([k \in 1 .. n * n |->
        LET i == (k - 1) \div n
            j == (k - 1) % n
        IN  IF i < j /\ J[i][j] # 0
            THEN <<CX(i, j), RZ(2 * gamma * J[i][j], j), CX(i, j)>>
            ELSE <<>>])

\* the gates of one cost sub-layer over the fields
FieldGates(n, h, gamma) ==
    IF ~Truthy(h) THEN <<>>
    ELSE Flatten([k \in 1 .. n |->
             IF h[k - 1] # 0 THEN <<RZ(2 * gamma * h[k - 1], k - 1)>> ELSE <<>>])

\* the gates of the layers 1 .. p: cost before mixer in each
QaoaLayers(n, J, h, gammas, betas, p) ==
    Flatten([l \in 1 .. p |->
        CouplingGates(n, J, gammas[l]) \o FieldGates(n, h, gammas[l])
        \o MixerLayer(n, betas[l])])

CouplingCount(n, J) == Cardinality({ pr \in Pairs(n) : J[pr[1]][pr[2]] # 0 })

FieldCount(n, h) ==
    IF ~Truthy(h) THEN 0 ELSE Cardinality({ i \in 0 .. n - 1 : h[i] # 0 })

\* C22: build_qaoa_circuit emits H on each qubit, then for each layer in
\* increasing order a CX(i,j), RZ(2 * gamma * J[i][j]) on j, CX(i,j) sandwich
\* for each pair i < j with J[i][j] # 0 in lexicographic order, then
\* RZ(2 * gamma * h[i]) on i for each i with h[i] # 0, then RX(2 * beta) on
\* every qubit; the circuit has n + p * (3 * |J # 0| + |h # 0| + n) gates.
C22_QaoaGateSequence ==
    QaoaBuilt =>
        LET n == ham_args.num_qubits
            J == ham_args.interaction_matrix
            h == ham_args.linear_terms
            p == Len(ham_args.gammas)
        IN  /\ ham_ret.data
                 = HLayer(n) \o QaoaLayers(n, J, h, ham_args.gammas, ham_args.betas, p)
            /\ Len(ham_ret.data)
                 = n + p * (3 * CouplingCount(n, J) + FieldCount(n, h) + n)

\* C22 witness: two qubits, one coupling, no field, one layer: the Hadamard
\* layer, one sandwich, two mixer rotations.
C22_Witness ==
    /\ QaoaBuilt
    /\ ham_args.num_qubits = 2
    /\ ham_args.interaction_matrix[0][1] = 4
    /\ ham_args.linear_terms = None
    /\ ham_args.gammas = <<3>>
    /\ ham_args.betas = <<3>>
    /\ ham_ret.data = <<H(0), H(1), CX(0, 1), RZ(24, 1), CX(0, 1), RX(6, 0), RX(6, 1)>>

AdjacencyDone == HamDone("maxcut_hamiltonian_from_adjacency")

\* the matrix the terms are read from: 1 - A or A, with a zero diagonal
AdjacencyWeight(A, invert, i, j) ==
    IF i = j THEN 0 ELSE IF invert THEN 4 - A[i][j] ELSE A[i][j]

\* the pairs i < j of positive weight with their weights, in lexicographic order
PositivePairs(A, invert, n) ==
    Flatten([k \in 1 .. n * n |->
        LET i == (k - 1) \div n
            j == (k - 1) % n
            w == AdjacencyWeight(A, invert, i, j)
        IN  IF i < j /\ w > 0 THEN <<[i |-> i, j |-> j, w |-> w]>> ELSE <<>>])

\* a string of n letters with Z for the two vertices and I elsewhere, the
\* vertices counted from either end
IsTwoBodyZZ(base, n, i, j) ==
    /\ Len(base) = n
    /\ \A pos \in 1 .. n : base[pos] \in {"I", "Z"}
    /\ { pos \in 1 .. n : base[pos] = "Z" } \in { {i + 1, j + 1}, {n - i, n - j} }

LettersAt(base, n, qubits, letter) ==
    /\ Len(base) = n
    /\ \A k \in 0 .. n - 1 : base[n - k] = IF k \in qubits THEN letter ELSE "I"

\* the qubit sets of the terms build_ising_hamiltonian collects, in order
IsingTermQubits(n, J, h) ==
    Flatten([k \in 1 .. n * n |->
        LET i == (k - 1) \div n
            j == (k - 1) % n
        IN  IF i < j /\ J[i][j] # 0 THEN <<{i, j}>> ELSE <<>>])
    \o (IF Truthy(h)
        THEN Flatten([k \in 1 .. n |-> IF h[k - 1] # 0 THEN <<{k - 1}>> ELSE <<>>])
        ELSE <<>>)

IsingConvention ==
    HamDone("build_ising_hamiltonian") =>
        LET n == ham_args.num_qubits
            expected == IsingTermQubits(n, ham_args.interaction_matrix,
                                        ham_args.linear_terms)
        IN  expected # <<>> =>
                /\ Len(ham_ret.paulis) = Len(expected)
                /\ \A k \in 1 .. Len(expected) :
                      LettersAt(ham_ret.paulis[k], n, expected[k], "Z")

NonBlank(segment) == Strip(segment) # <<>>

\* the '+'-separated segments of the text that are not blank, stripped
Segments(text) ==
    LET kept == SelectSeq(Split(text, "+"), NonBlank)
    IN  [k \in 1 .. Len(kept) |-> Strip(kept[k])]

\* the Pauli factors of a segment whose index is k
FactorsOn(segment, k) ==
    LET matches == FindIter(TermParts(segment).pauli_part, 1)
    IN  { m \in 1 .. Len(matches) : IntOf(matches[m].digits, 0) = k }

ParseConvention ==
    (HamDone("parse_hamiltonian") /\ ham_args.hamiltonian_str # None) =>
        LET n == ham_args.num_qubits
            segs == Segments(ham_args.hamiltonian_str)
        IN  segs # <<>> =>
                /\ Len(ham_ret.paulis) = Len(segs)
                /\ \A s \in 1 .. Len(segs) :
                      /\ Len(ham_ret.paulis[s]) = n
                      /\ \A k \in 0 .. n - 1 :
                            LET matches == FindIter(TermParts(segs[s]).pauli_part, 1)
                                on == FactorsOn(segs[s], k)
                            IN  ham_ret.paulis[s][n - k] \in
                                    IF on = {} THEN {"I"}
                                    ELSE { Upper(matches[m].gate) : m \in on }

AdjacencyConvention ==
    AdjacencyDone =>
        LET A == ham_args.adjacency_matrix
            n == Cardinality(DOMAIN A)
            expected == PositivePairs(A, ham_args.invert, n)
        IN  /\ Len(ham_ret.bases) = Len(expected)
            /\ \A k \in 1 .. Len(expected) :
                  LettersAt(ham_ret.bases[k], n, {expected[k].i, expected[k].j}, "Z")

\* C23: parse_hamiltonian, build_ising_hamiltonian and
\* maxcut_hamiltonian_from_adjacency all place the letter for qubit or
\* vertex k at string position n - 1 - k.
C23_SameQubitConvention == IsingConvention /\ ParseConvention /\ AdjacencyConvention

RECURSIVE SkipSpaces(_, _)
SkipSpaces(s, k) == IF k <= Len(s) /\ IsSpace(s[k]) THEN SkipSpaces(s, k + 1) ELSE k

\* the Pauli factors written from position k to the end of s, each a letter
\* directly followed by its index, with blanks between factors at most;
\* ok is FALSE when something else is written there
RECURSIVE FactorList(_, _)
FactorList(s, k) ==
    IF k > Len(s) THEN [ok |-> TRUE, factors |-> <<>>]
    ELSE IF IsPauliLetter(s[k]) /\ k < Len(s) /\ IsDigit(s[k + 1])
         THEN LET end == DigitRun(s, k + 1)
                  rest == FactorList(s, SkipSpaces(s, end))
              IN  [ok |-> rest.ok,
                   factors |-> <<[letter |-> Upper(s[k]),
                                  index |-> IntOf(SubSeq(s, k + 1, end - 1), 0)]>>
                               \o rest.factors]
    ELSE [ok |-> FALSE, factors |-> <<>>]

\* a stripped segment read as "[coefficient *] factor factor ...": the
\* coefficient is an optional sign and digits, separated from the factors by
\* blanks or by a '*' with blanks around it at most
TermForm(s) ==
    LET first == IF s # <<>> /\ s[1] = "-" THEN 2 ELSE 1
        end == DigitRun(s, first)
        blanks == SkipSpaces(s, end)
        starred == blanks <= Len(s) /\ s[blanks] = "*"
        start == IF starred THEN SkipSpaces(s, blanks + 1) ELSE blanks
        body == FactorList(s, start)
        plain == FactorList(s, 1)
    IN  IF end > first
        THEN [ok |-> (starred \/ blanks > end) /\ body.ok /\ body.factors # <<>>,
              coeff |-> (IF first = 2 THEN -1 ELSE 1) * DefaultCoeff
                        * IntOf(SubSeq(s, first, end - 1), 0),
              factors |-> body.factors]
        ELSE [ok |-> first = 1 /\ plain.ok /\ plain.factors # <<>>,
              coeff |-> DefaultCoeff,
              factors |-> plain.factors]

\* the term emitted for a segment carries its coefficient and, for every
\* factor with index < n, its letter; every other position holds I
TermAsWritten(form, base, coeff, n) ==
    /\ coeff = form.coeff
    /\ Len(base) = n
    /\ \A f \in 1 .. Len(form.factors) :
          form.factors[f].index < n => base[n - form.factors[f].index] = form.factors[f].letter
    /\ \A k \in 0 .. n - 1 :
          (\A f \in 1 .. Len(form.factors) : form.factors[f].index # k) => base[n - k] = "I"

DistinctIndices(form) ==
    \A f, g \in 1 .. Len(form.factors) :
        f # g => form.factors[f].index # form.factors[g].index

ParsedText == HamDone("parse_hamiltonian") /\ ham_args.hamiltonian_str # None

\* the terms whose factors name each qubit once at most are emitted as written
TermsOfDistinctFactors ==
    ParsedText =>
        LET segs == Segments(ham_args.hamiltonian_str)
        IN  \A s \in 1 .. Len(segs) :
                (TermForm(segs[s]).ok /\ DistinctIndices(TermForm(segs[s]))) =>
                    /\ Len(ham_ret.paulis) = Len(segs)
                    /\ TermAsWritten(TermForm(segs[s]), ham_ret.paulis[s],
                                     ham_ret.coeffs[s], ham_args.num_qubits)

\* C25: for each term of the form "[coefficient *] letter index ..."
\* parse_hamiltonian emits one term with the given coefficient, or 1.0 when
\* none is given, whose string carries the letter of every factor with index
\* below n; a factor with index n or more is dropped and changes nothing else.
C25_TermAsWritten ==
    ParsedText =>
        LET segs == Segments(ham_args.hamiltonian_str)
        IN  \A s \in 1 .. Len(segs) :
                TermForm(segs[s]).ok =>
                    /\ Len(ham_ret.paulis) = Len(segs)
                    /\ TermAsWritten(TermForm(segs[s]), ham_ret.paulis[s],
                                     ham_ret.coeffs[s], ham_args.num_qubits)

\* the number of '+'-separated segments of the text that are not blank: the
\* segment starts (position 0 and every '+') followed, before the next '+', by
\* a character that is no blank
SegmentCount(text) ==
    Cardinality({ a \in 0 .. Len(text) :
        /\ a = 0 \/ text[a] = "+"
        /\ \E k \in a + 1 .. Len(text) :
              /\ ~IsSpace(text[k])
              /\ \A m \in a + 1 .. k : text[m] # "+" })

\* every factor written in the segment, on either side of a '-', is in the term
AllFactorsInTerm(segment, base, n) ==
    LET matches == FindIter(segment, 1)
    IN  \A f \in 1 .. Len(matches) :
            LET k == IntOf(matches[f].digits, 0)
            IN  k < n =>
                    base[n - k] \in { Upper(matches[g].gate) :
                                      g \in { x \in 1 .. Len(matches) :
                                              IntOf(matches[x].digits, 0) = k } }

LeastQubits(V) ==
    CHOOSE q \in 1 .. V : Power(2, q) >= V /\ \A s \in 1 .. q - 1 : Power(2, s) < V

WalkSetUp == walk_pc = "loop"

WalkReturned == walk_pc = "done"

\* the count of the outcome of index idx in a dict of counts
CountOf(d, idx, width) == DictGet(d, FormatBits(idx, width), 0)

\* C26: in the final sampling of run_quantum_walk every outcome of index V or
\* more is discarded and every outcome of index below V keeps its count under
\* its num_qubits-wide binary label: final_counts has keys below V only and
\* sums to shots at most; most_likely_vertex is a key of maximal filtered count
\* and is below V, and it is vertex 0 when no outcome survives.
C26_FinalCountsFiltered ==
    WalkReturned =>
        LET V == walk_num_vertices
            q == walk_num_qubits
            final == walk_ret.final_counts
        IN  /\ \A k \in 1 .. Len(final) :
                  /\ Len(final[k].key) = q
                  /\ IntOfBits(final[k].key, 0) < V
                  /\ \A m \in 1 .. Len(final) : m # k => final[m].key # final[k].key
            /\ \A idx \in 0 .. Power(2, q) - 1 :
                  CountOf(final, idx, q) = IF idx < V THEN CountOf(walk_counts, idx, q) ELSE 0
            /\ DictSum(final) <= walk_args.shots
            /\ walk_ret.most_likely_vertex < V
            /\ final # <<>> =>
                  /\ \A k \in 1 .. Len(final) :
                        final[k].value <= CountOf(final, walk_ret.most_likely_vertex, q)
                  /\ CountOf(final, walk_ret.most_likely_vertex, q) >= 1
            /\ final = <<>> => walk_ret.most_likely_vertex = 0

\* C26 witness: on three vertices and two qubits one shot fell on index 3 and
\* was discarded, the other on vertex 2.
C26_Witness ==
    /\ WalkReturned
    /\ walk_num_vertices = 3
    /\ walk_counts = <<[key |-> <<"1", "1">>, value |-> 1],
                       [key |-> <<"1", "0">>, value |-> 1]>>
    /\ walk_ret.final_counts = <<[key |-> <<"1", "0">>, value |-> 1]>>
    /\ walk_ret.most_likely_vertex = 2

\* the runs of run_vqe and run_qaoa that returned their dict
Sampling(r) ==
    /\ opt_pc[r] = "done"
    /\ opt_args[r].runner \in {"run_vqe", "run_qaoa"}

\* C28: most_likely_state of run_vqe and run_qaoa is a key of counts whose
\* count no other count exceeds and, of the keys of that count, the one that
\* comes first in the iteration order of counts; it is a function of counts.
C28_MostLikelyFirstMaximum ==
    \A r \in Runs :
        Sampling(r) =>
            LET counts == opt_ret[r].counts
            IN  \E k \in 1 .. Len(counts) :
                    /\ opt_ret[r].most_likely_state = counts[k].key
                    /\ \A m \in 1 .. Len(counts) : counts[m].value <= counts[k].value
                    /\ \A m \in 1 .. k - 1 : counts[m].value < counts[k].value

\* C28 witness: run_qaoa returned two outcomes of one shot each, and the
\* first of them, '10', is the most likely state.
C28_Witness ==
    /\ Sampling(1)
    /\ opt_args[1].runner = "run_qaoa"
    /\ opt_ret[1].counts = <<[key |-> <<"1", "0">>, value |-> 1],
                             [key |-> <<"0", "1">>, value |-> 1]>>
    /\ opt_ret[1].most_likely_state = <<"1", "0">>

\* the runs of run_optimization that returned their dict
LegacyReturned(r) ==
    /\ opt_args[r].runner = "run_optimization"
    /\ opt_pc[r] = "done"

\* the gates of a circuit whose name, in upper case, is one of names and
\* that name at least arity qubits
GatesNamed(gates, names, arity) ==
    { k \in 1 .. Len(gates) :
        UpperName(gates[k].name) \in names /\ Len(gates[k].qubits) >= arity }

Rotations == {"RX", "RY", "RZ"}

ControlledRotations == {"CRX", "CRY", "CRZ"}

\* the circuit contains no rotation gate
NoRotationGate(gates) == GatesNamed(gates, Rotations \cup ControlledRotations, 0) = {}

\* C29: a run_optimization on a circuit without a rotation gate calls the
\* oracle exactly once and never the minimizer, and returns status
\* 'completed', no optimal_params, a history of one entry that is
\* optimal_energy, and the message 'No parameters to optimize.'; in every run
\* the number of trainable parameters is the number of RX/RY/RZ gates plus
\* the number of CRX/CRY/CRZ gates that name at least two qubits.
C29_LegacyParameters ==
    \A r \in Runs :
        LegacyReturned(r) =>
            LET gates == opt_args[r].circuit_data.gates
                ret == opt_ret[r]
            IN  /\ Cardinality(DOMAIN ret.optimal_params)
                     = Cardinality(GatesNamed(gates, Rotations, 0))
                       + Cardinality(GatesNamed(gates, ControlledRotations, 2))
                /\ NoRotationGate(gates) =>
                      /\ Len(returned[r]) = 1
                      /\ nit[r] = 0
                      /\ result[r] = None
                      /\ ret.status = "completed"
                      /\ ret.optimal_params = <<>>
                      /\ ret.history = <<ret.optimal_energy>>
                      /\ ret.message = "No parameters to optimize."

\* C29 witness: the run on a circuit of a Hadamard and a CX has returned
\* after one oracle call, with the energy 0.75 as its whole history.
C29_Witness ==
    /\ LegacyReturned(1)
    /\ Len(opt_args[1].circuit_data.gates) = 2
    /\ NoRotationGate(opt_args[1].circuit_data.gates)
    /\ opt_ret[1].history = <<3>>
    /\ opt_ret[1].optimal_energy = 3

\* a request to /execute has been answered
Executed == ham_fn = "execute" /\ ham_pc = "done"

ClassicalNames == {"X", "CNOT", "CX", "SWAP", "CCX"}

\* the circuit is made of X, CNOT/CX, SWAP and CCX gates only
OnlyClassical(gates) ==
    \A k \in 1 .. Len(gates) : UpperName(gates[k].name) \in ClassicalNames

\* a gate evaluated on the bits of the qubits: X negates its qubit, CNOT its
\* second qubit when the first is 1, CCX its third when the first two are 1,
\* SWAP exchanges its two qubits
ClassicalGate(bits, gate) ==
    LET name == UpperName(gate.name)
        a == gate.qubits[1]
        b == gate.qubits[2]
        c == gate.qubits[3]
    IN  IF name = "X" THEN [q \in DOMAIN bits |-> IF q = a THEN 1 - bits[q] ELSE bits[q]]
        ELSE IF name \in {"CNOT", "CX"}
        THEN [q \in DOMAIN bits |-> IF q = b THEN (bits[b] + bits[a]) % 2 ELSE bits[q]]
        ELSE IF name = "SWAP"
        THEN [q \in DOMAIN bits |-> IF q = a THEN bits[b]
                                    ELSE IF q = b THEN bits[a] ELSE bits[q]]
        ELSE [q \in DOMAIN bits |-> IF q = c THEN (bits[c] + bits[a] * bits[b]) % 2
                                    ELSE bits[q]]

\* the gates evaluated one after the other, in the order of the list
RECURSIVE ClassicalEval(_, _)
ClassicalEval(gates, bits) ==
    IF gates = <<>> THEN bits
    ELSE ClassicalEval(Tail(gates), ClassicalGate(bits, Head(gates)))

\* the bits written as a string, qubit 0 as its last character
Rightmost0(bits) ==
    LET n == Cardinality(DOMAIN bits)
    IN  [k \in 1 .. n |-> IF bits[n - k] = 1 THEN "1" ELSE "0"]

ToffoliExample ==
    <<RequestGate("X", <<0>>), RequestGate("X", <<1>>), RequestGate("CCX", <<0, 1, 2>>)>>

SwapExample == <<RequestGate("X", <<0>>), RequestGate("SWAP", <<0, 1>>)>>

\* C21: a circuit of X, CNOT/CX, SWAP and CCX gates only, run from |0...0>,
\* has its gates in the order of the list, and all its shots give the one
\* bitstring of the classical evaluation of the gates, qubit 0 written last:
\* X(0), X(1), CCX(0,1,2) on three qubits gives '111' and X(0), SWAP(0,1) on
\* two qubits gives '10'.
C21_ClassicalCircuits ==
    (Executed /\ OnlyClassical(ham_args.gates)) =>
        LET gates == ham_args.gates
            data == ham_ret.circuit.data
            zero == [q \in 0 .. ham_args.num_qubits - 1 |-> 0]
        IN  /\ Len(data) = Len(gates) + 1
            /\ \A k \in 1 .. Len(gates) :
                  /\ data[k].qubits = gates[k].qubits
                  /\ data[k].name = Method(UpperName(gates[k].name))
            /\ ham_ret.counts = <<[key |-> Rightmost0(ClassicalEval(gates, zero)),
                                   value |-> ham_args.shots]>>
            /\ (gates = ToffoliExample /\ ham_args.num_qubits = 3) =>
                  ham_ret.counts[1].key = <<"1", "1", "1">>
            /\ (gates = SwapExample /\ ham_args.num_qubits = 2) =>
                  ham_ret.counts[1].key = <<"1", "0">>

\* C21 witness: X(0), SWAP(0,1) on two qubits has been run, and every shot
\* gave '10'.
C21_Witness ==
    /\ Executed
    /\ ham_args.num_qubits = 2
    /\ ham_args.gates = SwapExample
    /\ ham_ret.counts = <<[key |-> <<"1", "0">>, value |-> ham_args.shots]>>

====
